---- MODULE Spec2Model ----
(***************************************************************************)
(* mgit: the remote-identifier parser (giturl.Parse) and the rule matcher  *)
(* (matcher.Match), modelled on strings represented as sequences of        *)
(* one-character strings.  A Go pointer result is a sequence of length 0   *)
(* (nil) or 1 (the pointed-to value); a Go error is "" (nil) or its kind.  *)
(* filepath.Match, url.Parse and path.Clean are modelled for a Unix build. *)
(***************************************************************************)
EXTENDS Integers, Sequences, FiniteSets, TLC

VARIABLES
    pc,        \* position of the calling code: "start", then "parsed", "matched",
               \* "inferred", "resolved" or "built"
    shape,     \* the pieces the input string was assembled from
    input,     \* the string handed to Parse
    parsed,    \* Parse's *ParsedRemote: <<>> (nil) or <<record>>
    parseErr,  \* Parse's error: "" (nil) or the error kind
    rules,     \* the []config.Rule handed to Match
    matchRes,  \* Match's *MatchResult: <<>> (nil) or <<record>>
    matchErr,  \* Match's error: <<>> (nil) or <<[kind, host, owner]>>
    argv,      \* the argument vector handed to InferGitTarget
    target,    \* InferGitTarget's GitTarget: <<>> before the call, then <<record>>
    inferErr,  \* InferGitTarget's error: "" (nil) or the error text
    positionals, \* InferGitTarget's local pos: <<>> (no scan made) or <<positionalArgs' result>>
    cfg,       \* the *config.Config handed to FromURL: <<>> (nil) or <<[Rules]>>
    environ,   \* the environment ExpandPath reads: <<>> (not read) or [home, cwd]
    result,    \* FromURL's *Result: <<>> (nil) or <<record>>
    resultErr, \* FromURL's error: <<>> (nil) or <<[kind, cause, detail]>>
    keyPath,   \* the key path handed to BuildGITSSHCommand
    sshCommand, \* BuildGITSSHCommand's string
    confRules, \* the Rules of the *Config that AddRule and RemoveRule work on
    lastCall,  \* the latest call on that config: <<>> (none) or <<[op, arguments, results]>>
    fsys,      \* the file system: the set of [path, kind] entries that exist
    custom,    \* the custom path handed to ResolvePath
    confPath,  \* ResolvePath's path
    confPathErr, \* ResolvePath's error: "" (nil) or the error kind
    changed,   \* EnsureGitignoreExcludesMgit's bool
    ensureErr, \* EnsureGitignoreExcludesMgit's error: "" (nil) or the error kind
    fsBefore,  \* the file system before the latest EnsureGitignoreExcludesMgit call
    items,     \* the menu's items
    selected,  \* pickOptionInteractive's highlighted position
    numberBuf, \* pickOptionInteractive's typed digits
    menu,      \* the returned menuResult: <<>> until a return, then <<result>>
    menuErr,   \* the returned error: "" (nil) or the error kind
    keys,      \* the bytes the latest iteration of the key loop read
    stdin,     \* the line prompt's input: [data, end], end being what a read reports after data
    answer,    \* promptLine's latest result: <<>> before a call, then <<[line, err]>>
    opts,      \* handleExec's globalOptions
    gitRepo,   \* what git answers in the working directory: [guess, url]
    remoteURL, \* handleExec's rawURL
    extraEnv,  \* handleExec's extraEnv: a set of [name, value]
    gitRun,    \* the call of git.RunGit: <<>> (none) or <<[args, env]>>
    exitCode   \* handleExec's return value

\* the variables of Parse and Match
remoteVars == <<shape, input, parsed, parseErr, rules, matchRes, matchErr>>

\* the variables of InferGitTarget, FromURL and BuildGITSSHCommand
inferVars == <<argv, target, inferErr, positionals>>

resolveVars == <<cfg, environ, result, resultErr>>

commandVars == <<keyPath, sshCommand>>

\* the variables of Config.AddRule and Config.RemoveRule
configVars == <<confRules, lastCall>>

\* the variables of the operations modelled further down, for the ones above
\* the variables of ResolvePath
pathVars == <<fsys, custom, confPath, confPathErr>>

\* the variables of EnsureGitignoreExcludesMgit
ensureVars == <<changed, ensureErr, fsBefore>>

\* the variables of the option menus
menuVars == <<items, selected, numberBuf, menu, menuErr, keys, stdin, answer>>

\* the variables of handleExec
execVars == <<opts, gitRepo, remoteURL, extraEnv, gitRun, exitCode>>

otherVars == <<configVars, pathVars, ensureVars, menuVars, execVars>>

coreVars == <<remoteVars, inferVars, resolveVars, commandVars>>

vars == <<pc, coreVars, otherVars>>

----------------------------------------------------------------------------
(* Characters and the strings package *)

Ascii ==
    <<" ", "!", "\"", "#", "$", "%", "&", "'", "(", ")", "*", "+", ",", "-", ".", "/",
      "0", "1", "2", "3", "4", "5", "6", "7", "8", "9", ":", ";", "<", "=", ">", "?",
      "@", "A", "B", "C", "D", "E", "F", "G", "H", "I", "J", "K", "L", "M", "N", "O",
      "P", "Q", "R", "S", "T", "U", "V", "W", "X", "Y", "Z", "[", "\\", "]", "^", "_",
      "bq", "a", "b", "c", "d", "e", "f", "g", "h", "i", "j", "k", "l", "m", "n", "o",
      "p", "q", "r", "s", "t", "u", "v", "w", "x", "y", "z", "{", "|", "}", "~">>

AsciiSet == {Ascii[i] : i \in 1..Len(Ascii)}

\* the one letter outside ASCII that the model writes: U+017F, LATIN SMALL LETTER
\* LONG S, whose upper case is "S" and whose lower case is itself
LongS == "long-s"

\* byte value of a printable character ("bq" stands for the backquote, byte 96);
\* control characters count as 10, the long s as its code point
CodeOf == [c \in AsciiSet |-> 31 + (CHOOSE i \in 1..Len(Ascii) : Ascii[i] = c)]

Code(c) == IF c \in AsciiSet THEN CodeOf[c] ELSE IF c = LongS THEN 383 ELSE 10

IsUpper(c) == c \in AsciiSet /\ CodeOf[c] >= 65 /\ CodeOf[c] <= 90

IsLower(c) == c \in AsciiSet /\ CodeOf[c] >= 97 /\ CodeOf[c] <= 122

IsLetter(c) == IsUpper(c) \/ IsLower(c)

IsDigit(c) == c \in AsciiSet /\ CodeOf[c] >= 48 /\ CodeOf[c] <= 57

IsSpace(c) == c \in {" ", "\t", "\n", "\r"}

IsCTL(c) == c \in {"\t", "\n", "\r"}

ToLowerChar(c) == IF IsUpper(c) THEN Ascii[CodeOf[c] - 31 + 32] ELSE c

ToUpperChar(c) ==
    IF c = LongS THEN "S" ELSE IF IsLower(c) THEN Ascii[CodeOf[c] - 31 - 32] ELSE c

ToLower(s) == [i \in 1..Len(s) |-> ToLowerChar(s[i])]

ToUpper(s) == [i \in 1..Len(s) |-> ToUpperChar(s[i])]

\* simple case folding: "S", "s" and the long s fold together
FoldChar(c) == IF c = LongS THEN "s" ELSE ToLowerChar(c)

EqualFold(s, t) == Len(s) = Len(t) /\ \A i \in 1..Len(s) : FoldChar(s[i]) = FoldChar(t[i])

SetMin(S) == CHOOSE x \in S : \A y \in S : x <= y

SetMax(S) == CHOOSE x \in S : \A y \in S : y <= x

From(s, i) == SubSeq(s, i, Len(s))

TrimSpace(s) ==
    LET keep == {i \in 1..Len(s) : ~IsSpace(s[i])}
    IN  IF keep = {} THEN <<>> ELSE SubSeq(s, SetMin(keep), SetMax(keep))

HasPrefix(s, p) == Len(s) >= Len(p) /\ SubSeq(s, 1, Len(p)) = p

HasSuffix(s, p) == Len(s) >= Len(p) /\ SubSeq(s, Len(s) - Len(p) + 1, Len(s)) = p

TrimPrefix(s, p) == IF HasPrefix(s, p) THEN From(s, Len(p) + 1) ELSE s

TrimSuffix(s, p) == IF HasSuffix(s, p) THEN SubSeq(s, 1, Len(s) - Len(p)) ELSE s

\* strings.Index, 1-based; 0 when sub does not occur
Index(s, sub) ==
    LET at == {i \in 1..(Len(s) - Len(sub) + 1) : SubSeq(s, i, i + Len(sub) - 1) = sub}
    IN  IF at = {} THEN 0 ELSE SetMin(at)

LastIndex(s, sub) ==
    LET at == {i \in 1..(Len(s) - Len(sub) + 1) : SubSeq(s, i, i + Len(sub) - 1) = sub}
    IN  IF at = {} THEN 0 ELSE SetMax(at)

Contains(s, sub) == Index(s, sub) # 0

ContainsAny(s, chars) == \E i \in 1..Len(s) : s[i] \in chars

\* strings.Cut: the text before the first sep, and the text after it
CutBefore(s, sep) == IF Index(s, sep) = 0 THEN s ELSE SubSeq(s, 1, Index(s, sep) - 1)

CutAfter(s, sep) == IF Index(s, sep) = 0 THEN <<>> ELSE From(s, Index(s, sep) + Len(sep))

RECURSIVE Split(_, _)
Split(s, sep) ==
    IF Index(s, sep) = 0 THEN <<s>>
    ELSE <<CutBefore(s, sep)>> \o Split(CutAfter(s, sep), sep)

RECURSIVE Join(_, _)
Join(segs, sep) ==
    IF segs = <<>> THEN <<>>
    ELSE IF Len(segs) = 1 THEN segs[1]
    ELSE segs[1] \o sep \o Join(Tail(segs), sep)

RECURSIVE DropEmpty(_)
DropEmpty(segs) ==
    IF segs = <<>> THEN <<>>
    ELSE IF Head(segs) = <<>> THEN DropEmpty(Tail(segs))
    ELSE <<Head(segs)>> \o DropEmpty(Tail(segs))

Slash == <<"/">>

Colon == <<":">>

DotGit == <<".", "g", "i", "t">>

SchemeSep == <<":", "/", "/">>

----------------------------------------------------------------------------
(* path.Clean *)

RECURSIVE CleanSegs(_, _, _)
CleanSegs(segs, out, rooted) ==
    IF segs = <<>> THEN out
    ELSE LET s == Head(segs)
         IN  IF s = <<>> \/ s = <<".">> THEN CleanSegs(Tail(segs), out, rooted)
             ELSE IF s = <<".", ".">>
                  THEN IF out # <<>> /\ out[Len(out)] # <<".", ".">>
                       THEN CleanSegs(Tail(segs), SubSeq(out, 1, Len(out) - 1), rooted)
                       ELSE IF rooted THEN CleanSegs(Tail(segs), out, rooted)
                       ELSE CleanSegs(Tail(segs), Append(out, s), rooted)
             ELSE CleanSegs(Tail(segs), Append(out, s), rooted)

PathClean(p) ==
    IF p = <<>> THEN <<".">>
    ELSE LET rooted == p[1] = "/"
             body   == Join(CleanSegs(Split(p, Slash), <<>>, rooted), Slash)
         IN  IF rooted THEN Slash \o body
             ELSE IF body = <<>> THEN <<".">> ELSE body

----------------------------------------------------------------------------
(* net/url: url.Parse, URL.Hostname, URL.Port, for inputs without '%' escapes *)

\* getScheme: 0 = no scheme (the whole text is the rest), -1 = "missing protocol
\* scheme", otherwise the position of the ':' that ends the scheme
RECURSIVE getSchemeAt(_, _)
getSchemeAt(raw, i) ==
    IF i > Len(raw) THEN 0
    ELSE IF IsLetter(raw[i]) THEN getSchemeAt(raw, i + 1)
    ELSE IF IsDigit(raw[i]) \/ raw[i] \in {"+", "-", "."}
         THEN IF i = 1 THEN 0 ELSE getSchemeAt(raw, i + 1)
    ELSE IF raw[i] = ":" THEN IF i = 1 THEN -1 ELSE i
    ELSE 0

validOptionalPort(port) ==
    \/ port = <<>>
    \/ /\ port[1] = ":"
       /\ \A i \in 2..Len(port) : IsDigit(port[i])

\* shouldEscape(c, encodeHost) is false for these
HostCharOK(c) ==
    \/ IsLetter(c) \/ IsDigit(c)
    \/ c \in {"!", "$", "&", "'", "(", ")", "*", "+", ",", ";", "=", ":", "[", "]", "<", ">", "\""}
    \/ c \in {"-", "_", ".", "~"}

validUserinfo(u) ==
    \A i \in 1..Len(u) :
        \/ IsLetter(u[i]) \/ IsDigit(u[i])
        \/ u[i] \in {"-", ".", "_", ":", "~", "!", "$", "&", "'", "(", ")", "*", "+", ",", ";", "=", "%", "@"}

\* parseHost: TRUE when the host text is accepted
parseHostOK(host) ==
    /\ IF HasPrefix(host, <<"[">>)
       THEN /\ LastIndex(host, <<"]">>) # 0
            /\ validOptionalPort(From(host, LastIndex(host, <<"]">>) + 1))
       ELSE \/ LastIndex(host, Colon) = 0
            \/ validOptionalPort(From(host, LastIndex(host, Colon)))
    /\ \A i \in 1..Len(host) : HostCharOK(host[i])

\* parseAuthority: [ok, hasUser, Username, Host]
parseAuthority(authority) ==
    LET i        == LastIndex(authority, <<"@">>)
        host     == IF i = 0 THEN authority ELSE From(authority, i + 1)
        userinfo == SubSeq(authority, 1, i - 1)
    IN  IF ~parseHostOK(host)
        THEN [ok |-> FALSE, hasUser |-> FALSE, Username |-> <<>>, Host |-> <<>>]
        ELSE IF i = 0
        THEN [ok |-> TRUE, hasUser |-> FALSE, Username |-> <<>>, Host |-> host]
        ELSE IF ~validUserinfo(userinfo)
        THEN [ok |-> FALSE, hasUser |-> FALSE, Username |-> <<>>, Host |-> <<>>]
        ELSE [ok |-> TRUE, hasUser |-> TRUE,
              Username |-> CutBefore(userinfo, Colon), Host |-> host]

NoURL == [ok |-> FALSE, Scheme |-> <<>>, hasUser |-> FALSE, Username |-> <<>>,
          Host |-> <<>>, Path |-> <<>>]

\* url.Parse: [ok, Scheme, hasUser, Username, Host, Path]
urlParse(rawURL) ==
    LET u      == CutBefore(rawURL, <<"#">>)
        colon  == getSchemeAt(u, 1)
        scheme == IF colon > 0 THEN ToLower(SubSeq(u, 1, colon - 1)) ELSE <<>>
        rest0  == IF colon > 0 THEN From(u, colon + 1) ELSE u
        rest   == CutBefore(rest0, <<"?">>)
    IN  IF \E i \in 1..Len(u) : IsCTL(u[i]) THEN NoURL
        ELSE IF u = <<"*">> THEN [NoURL EXCEPT !.ok = TRUE, !.Path = u]
        ELSE IF colon = -1 THEN NoURL
        ELSE IF ~HasPrefix(rest, Slash) /\ scheme # <<>>
        THEN [NoURL EXCEPT !.ok = TRUE, !.Scheme = scheme]
        ELSE IF ~HasPrefix(rest, Slash) /\ Contains(CutBefore(rest, Slash), Colon)
        THEN NoURL
        ELSE IF (scheme # <<>> \/ ~HasPrefix(rest, <<"/", "/", "/">>))
                /\ HasPrefix(rest, <<"/", "/">>)
        THEN LET after     == From(rest, 3)
                 authority == CutBefore(after, Slash)
                 path      == IF Index(after, Slash) = 0 THEN <<>>
                              ELSE From(after, Index(after, Slash))
                 auth      == parseAuthority(authority)
             IN  IF ~auth.ok THEN NoURL
                 ELSE [ok |-> TRUE, Scheme |-> scheme, hasUser |-> auth.hasUser,
                       Username |-> auth.Username, Host |-> auth.Host, Path |-> path]
        ELSE [NoURL EXCEPT !.ok = TRUE, !.Scheme = scheme, !.Path = rest]

\* splitHostPort: the position of the ':' that starts a valid port, or 0
PortColon(host) ==
    LET c == LastIndex(host, Colon)
    IN  IF c # 0 /\ validOptionalPort(From(host, c)) THEN c ELSE 0

Hostname(host) ==
    LET h == IF PortColon(host) # 0 THEN SubSeq(host, 1, PortColon(host) - 1) ELSE host
    IN  IF HasPrefix(h, <<"[">>) /\ HasSuffix(h, <<"]">>)
        THEN SubSeq(h, 2, Len(h) - 1) ELSE h

Port(host) == IF PortColon(host) # 0 THEN From(host, PortColon(host) + 1) ELSE <<>>

----------------------------------------------------------------------------
(* package giturl *)

TransportSSH == <<"s", "s", "h">>

TransportHTTPS == <<"h", "t", "t", "p", "s">>

TransportOther == <<"o", "t", "h", "e", "r">>

ParsedRemote(original, transport, scheme, user, host, port, owner, repo, rawPath) ==
    [Original |-> original, Transport |-> transport, Scheme |-> scheme, User |-> user,
     Host |-> host, Port |-> port, Owner |-> owner, Repo |-> repo, RawPath |-> rawPath,
     IsRemoteURL |-> TRUE]

IsSSH(p) == p.Transport = TransportSSH

IsHTTPS(p) == p.Transport = TransportHTTPS

\* a (value, error) result: remote is <<>> whenever err is not ""
Fail(kind) == [remote |-> <<>>, err |-> kind]

Ok(p) == [remote |-> <<p>>, err |-> ""]

\* variant of OwnerOf: the first segment only
OwnerOf_m(filtered) == filtered[1]

\* the owner computed at line 163-166: path.Clean of the leading segments, "." becoming ""
OwnerOf(filtered) ==
    LET o == PathClean(Join(SubSeq(filtered, 1, Len(filtered) - 1), Slash))
    IN  IF o = <<".">> THEN <<>> ELSE o

\* variant of RepoOf: the ".git" suffix is kept
RepoOf_m(filtered) == filtered[Len(filtered)]

\* the repo computed at line 158-159
RepoOf(filtered) == TrimSuffix(filtered[Len(filtered)], DotGit)

\* variant of splitRepoPath: without the checks for an empty repo and an empty owner
splitRepoPath_m(rawPath) ==
    LET p        == TrimSuffix(TrimPrefix(TrimPrefix(TrimSpace(rawPath), Slash),
                                          <<".", "/">>), Slash)
        filtered == DropEmpty(Split(p, Slash))
        none     == [err |-> "", owner |-> <<>>, repo |-> <<>>, cleanPath |-> <<>>]
    IN  IF p = <<>> THEN [none EXCEPT !.err = "repository path is empty"]
        ELSE IF Len(filtered) < 2
        THEN [none EXCEPT !.err = "repository path must include owner and repo"]
        ELSE [err |-> "", owner |-> OwnerOf(filtered), repo |-> RepoOf(filtered),
              cleanPath |-> Join(filtered, Slash)]

\* splitRepoPath: [err, owner, repo, cleanPath]
splitRepoPath(rawPath) ==
    LET p        == TrimSuffix(TrimPrefix(TrimPrefix(TrimSpace(rawPath), Slash),
                                          <<".", "/">>), Slash)
        filtered == DropEmpty(Split(p, Slash))
        none     == [err |-> "", owner |-> <<>>, repo |-> <<>>, cleanPath |-> <<>>]
    IN  IF p = <<>> THEN [none EXCEPT !.err = "repository path is empty"]
        ELSE IF Len(filtered) < 2
        THEN [none EXCEPT !.err = "repository path must include owner and repo"]
        ELSE IF RepoOf(filtered) = <<>> THEN [none EXCEPT !.err = "invalid repo in path"]
        ELSE IF OwnerOf(filtered) = <<>>
        THEN [none EXCEPT !.err = "invalid owner/namespace in path"]
        ELSE [err |-> "", owner |-> OwnerOf(filtered), repo |-> RepoOf(filtered),
              cleanPath |-> Join(filtered, Slash)]

\* the Transport chosen by the switch at line 98-103
TransportOf(scheme) ==
    IF ToLower(scheme) = TransportSSH THEN TransportSSH
    ELSE IF ToLower(scheme) = TransportHTTPS THEN TransportHTTPS
    ELSE TransportOther

parseURL(raw) ==
    LET u    == urlParse(raw)
        host == Hostname(u.Host)
        sp   == splitRepoPath(u.Path)
    IN  IF ~u.ok THEN Fail("parse URL")
        ELSE IF host = <<>> THEN Fail("URL does not contain host")
        ELSE IF sp.err # "" THEN Fail("parse repository path")
        ELSE Ok(ParsedRemote(raw, TransportOf(u.Scheme), ToLower(u.Scheme),
                             IF u.hasUser THEN u.Username ELSE <<>>,
                             host, Port(u.Host), sp.owner, sp.repo, sp.cleanPath))

\* variant of scpTail: a '/' separates host and path when there is no ':'
scpTail_m(t) ==
    LET c == IF Index(t, Colon) > 0 THEN Index(t, Colon) ELSE Index(t, Slash)
    IN  [ok   |-> c >= 2 /\ c < Len(t) /\ \A i \in (c + 1)..Len(t) : t[i] # "\n",
         host |-> SubSeq(t, 1, c - 1),
         path |-> From(t, c + 1)]

\* scpLikeRe = ^(?:(?P<user>[^@]+)@)?(?P<host>[^:]+):(?P<path>.+)$ applied to text
\* that starts after an already matched "user@" (withUser) or at the start:
\* host is the text before the first ':', path the rest; '.' does not match "\n"
scpTail(t) ==
    LET c == Index(t, Colon)
    IN  [ok   |-> c >= 2 /\ c < Len(t) /\ \A i \in (c + 1)..Len(t) : t[i] # "\n",
         host |-> SubSeq(t, 1, c - 1),
         path |-> From(t, c + 1)]

\* FindStringSubmatch(scpLikeRe): the alternative with the user group is tried
\* first (leftmost-first), and the one without it when that fails
scpLikeMatch(s) ==
    LET at       == Index(s, <<"@">>)
        withUser == scpTail(From(s, at + 1))
        noUser   == scpTail(s)
    IN  IF at >= 2 /\ withUser.ok
        THEN [ok |-> TRUE, user |-> SubSeq(s, 1, at - 1),
              host |-> withUser.host, path |-> withUser.path]
        ELSE IF noUser.ok
        THEN [ok |-> TRUE, user |-> <<>>, host |-> noUser.host, path |-> noUser.path]
        ELSE [ok |-> FALSE, user |-> <<>>, host |-> <<>>, path |-> <<>>]

parseSCPLike(raw) ==
    LET m  == scpLikeMatch(raw)
        sp == splitRepoPath(m.path)
    IN  IF ~m.ok THEN Fail("unsupported remote URL format")
        ELSE IF sp.err # "" THEN Fail("parse repository path")
        ELSE Ok(ParsedRemote(raw, TransportSSH, TransportSSH, m.user, m.host, <<>>,
                             sp.owner, sp.repo, sp.cleanPath))

\* variant of Parse: the input is handed on untrimmed
Parse_m(in) ==
    LET s == TrimSpace(in)
    IN  IF s = <<>> THEN Fail("empty URL")
        ELSE IF Contains(s, SchemeSep) THEN parseURL(in)
        ELSE parseSCPLike(in)

Parse(in) ==
    LET s == TrimSpace(in)
    IN  IF s = <<>> THEN Fail("empty URL")
        ELSE IF Contains(s, SchemeSep) THEN parseURL(s)
        ELSE parseSCPLike(s)

IsLikelyRemoteURL(s) == Contains(s, SchemeSep) \/ scpLikeMatch(s).ok

----------------------------------------------------------------------------
(* path/filepath: filepath.Match with Separator = '/' *)

\* the first position at or after i that holds one of chars, or Len(p) + 1
NextOf(p, i, chars) ==
    LET at == {j \in i..Len(p) : p[j] \in chars}
    IN  IF at = {} THEN Len(p) + 1 ELSE SetMin(at)

\* scanChunk: the chunk ends before the first '*' outside a class, at or after i
\* (a run of ordinary characters is passed over in one step)
RECURSIVE scanEnd(_, _, _)
scanEnd(p, i, inrange) ==
    IF i > Len(p) THEN i
    ELSE IF p[i] = "\\" THEN scanEnd(p, IF i + 1 <= Len(p) THEN i + 2 ELSE i + 1, inrange)
    ELSE IF p[i] = "[" THEN scanEnd(p, i + 1, TRUE)
    ELSE IF p[i] = "]" THEN scanEnd(p, i + 1, FALSE)
    ELSE IF p[i] = "*" /\ ~inrange THEN i
    ELSE IF p[i] = "*" THEN scanEnd(p, i + 1, inrange)
    ELSE scanEnd(p, NextOf(p, i, {"\\", "[", "]", "*"}), inrange)

RECURSIVE dropStars(_)
dropStars(p) == IF p # <<>> /\ p[1] = "*" THEN dropStars(Tail(p)) ELSE p

scanChunk(pattern) ==
    LET p == dropStars(pattern)
        e == scanEnd(p, 1, FALSE)
    IN  [star |-> Len(p) < Len(pattern), chunk |-> SubSeq(p, 1, e - 1), rest |-> From(p, e)]

\* getEsc: [err, r, nchunk]
getEsc(chunk) ==
    LET c == IF chunk # <<>> /\ chunk[1] = "\\" THEN Tail(chunk) ELSE chunk
    IN  IF chunk = <<>> \/ chunk[1] \in {"-", "]"} \/ c = <<>>
        THEN [err |-> TRUE, r |-> "", nchunk |-> <<>>]
        ELSE [err |-> Len(c) = 1, r |-> c[1], nchunk |-> Tail(c)]

\* the upper end of a range: the escape after '-', or the lower end itself
hiOf(lo) == IF ~lo.err /\ lo.nchunk[1] = "-" THEN getEsc(Tail(lo.nchunk)) ELSE lo

inRange(lo, hi, r) == r # "" /\ Code(lo.r) <= Code(r) /\ Code(r) <= Code(hi.r)

\* the range loop of a character class: [err, match, chunk]; r = "" after a failure
RECURSIVE classRanges(_, _, _, _)
RECURSIVE classRange(_, _, _, _, _)
classRange(lo, hi, r, match, nrange) ==
    IF lo.err \/ hi.err THEN [err |-> TRUE, match |-> FALSE, chunk |-> <<>>]
    ELSE classRanges(hi.nchunk, r, match \/ inRange(lo, hi, r), nrange + 1)

classRanges(chunk, r, match, nrange) ==
    IF chunk # <<>> /\ chunk[1] = "]" /\ nrange > 0
    THEN [err |-> FALSE, match |-> match, chunk |-> Tail(chunk)]
    ELSE classRange(getEsc(chunk), hiOf(getEsc(chunk)), r, match, nrange)

BadChunk == [rest |-> <<>>, ok |-> FALSE, err |-> TRUE]

\* a '[' class starts at chunk[1]: the text after '[' and an optional '^'
classBody(chunk) == IF Len(chunk) >= 2 /\ chunk[2] = "^" THEN From(chunk, 3) ELSE Tail(chunk)

classNegated(chunk) == Len(chunk) >= 2 /\ chunk[2] = "^"

\* matchChunk: [rest, ok, err]; after a failure the chunk is still checked for syntax
\* (a run of ordinary characters is compared in one step)
RECURSIVE matchChunkFrom(_, _, _)
RECURSIVE matchClass(_, _, _, _)
RECURSIVE matchRun(_, _, _, _)
matchClass(cls, negated, adv, failed) ==
    IF cls.err THEN BadChunk
    ELSE matchChunkFrom(cls.chunk, adv, failed \/ cls.match = negated)

matchRun(chunk, s, wasFailed, run) ==
    IF wasFailed \/ Len(s) < run \/ SubSeq(s, 1, run) # SubSeq(chunk, 1, run)
    THEN matchChunkFrom(From(chunk, run + 1), <<>>, TRUE)
    ELSE matchChunkFrom(From(chunk, run + 1), From(s, run + 1), FALSE)

matchChunkFrom(chunk, s, wasFailed) ==
    IF chunk = <<>>
    THEN IF wasFailed THEN [rest |-> <<>>, ok |-> FALSE, err |-> FALSE]
         ELSE [rest |-> s, ok |-> TRUE, err |-> FALSE]
    ELSE IF chunk[1] \notin {"[", "?", "\\"}
    THEN matchRun(chunk, s, wasFailed, NextOf(chunk, 1, {"[", "?", "\\"}) - 1)
    ELSE IF chunk[1] = "\\" /\ Len(chunk) = 1 THEN BadChunk
    ELSE IF wasFailed \/ s = <<>>
    THEN IF chunk[1] = "["
         THEN matchClass(classRanges(classBody(chunk), "", FALSE, 0),
                         classNegated(chunk), s, TRUE)
         ELSE matchChunkFrom(From(chunk, IF chunk[1] = "?" THEN 2 ELSE 3), s, TRUE)
    ELSE IF chunk[1] = "["
    THEN matchClass(classRanges(classBody(chunk), s[1], FALSE, 0),
                    classNegated(chunk), Tail(s), FALSE)
    ELSE IF chunk[1] = "?" THEN matchChunkFrom(Tail(chunk), Tail(s), s[1] = "/")
    ELSE matchChunkFrom(From(chunk, 3), Tail(s), chunk[2] # s[1])

matchChunk(chunk, s) == matchChunkFrom(chunk, s, FALSE)

\* the closing loop of Match: is some remaining chunk malformed
RECURSIVE restBad(_)
RECURSIVE restBadAt(_)
restBadAt(sc) == matchChunk(sc.chunk, <<>>).err \/ restBad(sc.rest)

restBad(pattern) == pattern # <<>> /\ restBadAt(scanChunk(pattern))

\* the last chunk must exhaust the name
chunkFits(m, rest) == m.ok /\ ~(rest = <<>> /\ m.rest # <<>>)

\* the star loop of Match: the offsets i at which the name, with i+1 bytes skipped
\* (none of them a '/'), matches the chunk
starSkips(chunk, rest, name) ==
    {i \in 1..Len(name) :
        /\ \A k \in 1..i : name[k] # "/"
        /\ chunkFits(matchChunk(chunk, From(name, i + 1)), rest)}

\* filepath.Match: [matched, err]
RECURSIVE filepathMatch(_, _)
RECURSIVE matchAfterChunk(_, _, _)
matchAfterChunk(sc, name, m) ==
    IF m.ok /\ (m.rest = <<>> \/ sc.rest # <<>>)
    THEN filepathMatch(sc.rest, m.rest)
    ELSE IF m.err THEN [matched |-> FALSE, err |-> TRUE]
    ELSE [matched |-> FALSE, err |-> restBad(sc.rest)]

\* one round of the Pattern loop, the chunk being matched at offset at of the name:
\* 0 is the current position, the others are the star loop's skips
RECURSIVE matchRound(_, _, _)
matchRound(sc, name, at) ==
    IF sc.star /\ sc.chunk = <<>>
    THEN [matched |-> ~Contains(name, Slash), err |-> FALSE]
    ELSE matchAfterChunk(sc, name, matchChunk(sc.chunk, From(name, at + 1)))

\* the offset the Pattern loop settles on: 0 when the chunk matches right away (or
\* is malformed, or no star allows a skip), else the first skip that fits
firstFit(sc, name, m, skips) ==
    IF (m.ok /\ (m.rest = <<>> \/ sc.rest # <<>>)) \/ m.err \/ ~sc.star \/ skips = {}
    THEN 0 ELSE SetMin(skips)

fitOf(sc, name) ==
    firstFit(sc, name, matchChunk(sc.chunk, name), starSkips(sc.chunk, sc.rest, name))

matchScanned(sc, name) == matchRound(sc, name, fitOf(sc, name))

filepathMatch(pattern, name) ==
    IF pattern = <<>> THEN [matched |-> name = <<>>, err |-> FALSE]
    ELSE matchScanned(scanChunk(pattern), name)

----------------------------------------------------------------------------
(* package matcher *)

Star == <<"*">>

Rule(id, host, owner, key, priority) ==
    [ID |-> id, Host |-> host, Owner |-> owner, Key |-> key, Priority |-> priority]

normalizePattern(s) == IF TrimSpace(s) = <<>> THEN Star ELSE TrimSpace(s)

hasWildcard(pattern) == ContainsAny(pattern, {"*", "?", "["})

literalChars(pattern) ==
    Cardinality({i \in 1..Len(pattern) : pattern[i] \notin {"*", "?", "[", "]"}})

\* variant of specificityScore: "*" and the exact literal change places
specificityScore_m(pattern, value) ==
    IF pattern = Star THEN 400
    ELSE IF ~hasWildcard(pattern) /\ EqualFold(pattern, value) THEN 0
    ELSE IF ~hasWildcard(pattern) THEN 300
    ELSE 100

\* variant of specificityScore: the exact literal is not told from other literals
specificityScore_noExact(pattern, value) ==
    IF pattern = Star THEN 0
    ELSE IF ~hasWildcard(pattern) THEN 300
    ELSE 100

specificityScore(pattern, value) ==
    IF pattern = Star THEN 0
    ELSE IF ~hasWildcard(pattern) /\ EqualFold(pattern, value) THEN 400
    ELSE IF ~hasWildcard(pattern) THEN 300
    ELSE 100

\* filepath.Match reporting a match and no error
matchedNoError(m) == ~m.err /\ m.matched

globOK(pattern, value) == matchedNoError(filepathMatch(pattern, value))

\* the values matchRule compares: lines 47-50
hostPatternOf(r) == normalizePattern(ToLower(r.Host))

ownerPatternOf(r) == normalizePattern(ToLower(r.Owner))

\* variant of hostValueOf: the host as written
hostValueOf_m(remote) == remote.Host

hostValueOf(remote) == ToLower(remote.Host)

ownerValueOf(remote) == ToLower(remote.Owner)

\* the score of lines 60-63
scoreOf(r, remote) ==
    r.Priority * 1000
    + specificityScore(hostPatternOf(r), hostValueOf(remote))
    + specificityScore(ownerPatternOf(r), ownerValueOf(remote))
    + literalChars(hostPatternOf(r)) + literalChars(ownerPatternOf(r))

\* matchRule: [ok, score]
matchRule(r, remote) ==
    IF ~globOK(hostPatternOf(r), hostValueOf(remote)) THEN [ok |-> FALSE, score |-> 0]
    ELSE IF ~globOK(ownerPatternOf(r), ownerValueOf(remote)) THEN [ok |-> FALSE, score |-> 0]
    ELSE [ok |-> TRUE, score |-> scoreOf(r, remote)]

\* variant of replacesBest: an equal score replaces too
replacesBest_m(candidate, best) == best = <<>> \/ candidate.Score >= best[1].Score

\* line 32: does the candidate replace the best seen so far (best is <<>> or <<result>>)
replacesBest(candidate, best) == best = <<>> \/ candidate.Score > best[1].Score

\* lines 27-34 for rule r at Go index i, m being matchRule's result
keepBest(m, r, i, best) ==
    IF ~m.ok THEN best
    ELSE IF replacesBest([Rule |-> r, Score |-> m.score, Index |-> i], best)
    THEN <<[Rule |-> r, Score |-> m.score, Index |-> i]>>
    ELSE best

\* the loop of lines 26-35 from rule i (1-based here; Index is Go's 0-based i)
RECURSIVE matchLoop(_, _, _, _)
matchLoop(rs, remote, i, best) ==
    IF i > Len(rs) THEN best
    ELSE matchLoop(rs, remote, i + 1, keepBest(matchRule(rs[i], remote), rs[i], i - 1, best))

\* variant of noRuleError: the host is reported in lower case
noRuleError_m(remote) ==
    [kind |-> "no SSH key rule matched", host |-> ToLower(remote.Host), owner |-> remote.Owner]

\* the error of lines 37-41, naming the remote's host and owner
noRuleError(remote) ==
    [kind |-> "no SSH key rule matched", host |-> remote.Host, owner |-> remote.Owner]

MatchError(kind) == [res |-> <<>>, err |-> <<[kind |-> kind, host |-> <<>>, owner |-> <<>>]>>]

\* lines 36-43, best being what the loop kept
matchReturn(best, remote) ==
    IF best = <<>> THEN [res |-> <<>>, err |-> <<noRuleError(remote)>>]
    ELSE [res |-> best, err |-> <<>>]

\* Match: [res, err]; remote is <<>> (nil) or <<ParsedRemote>>
Match(rs, remote) ==
    IF remote = <<>> THEN MatchError("nil parsed remote")
    ELSE IF remote[1].Host = <<>> THEN MatchError("parsed remote host is empty")
    ELSE matchReturn(matchLoop(rs, remote[1], 1, <<>>), remote[1])

----------------------------------------------------------------------------
(* Inputs: a remote string is assembled from the pieces of a shape *)

MaxSegs == 3

MaxRules == 2

LongLen == 200

Shape(g, lead, scheme, user, host, sep, prefix, segs, suffix) ==
    [g |-> g, lead |-> lead, scheme |-> scheme, user |-> user, host |-> host,
     sep |-> sep, prefix |-> prefix, segs |-> segs, suffix |-> suffix]

\* the repository path of a shape: what follows "host:" in the shorthand grammar,
\* the path component (from the '/' after the authority) in the URL grammar
PathOf(sh) ==
    (IF sh.g = "url" THEN Slash ELSE <<>>) \o sh.prefix \o Join(sh.segs, Slash) \o sh.suffix

InputOf(sh) ==
    sh.lead
    \o (IF sh.g = "url" THEN sh.scheme \o SchemeSep ELSE <<>>)
    \o (IF sh.user # <<>> THEN sh.user \o <<"@">> ELSE <<>>)
    \o sh.host
    \o (IF sh.g = "url" THEN <<>> ELSE sh.sep)
    \o PathOf(sh)

SegPool == {<<"G", "r">>, <<"r", ".", "g", "i", "t">>, DotGit, <<".">>, <<".", ".">>}

RECURSIVE SeqsUpTo(_, _)
SeqsUpTo(S, n) ==
    IF n = 0 THEN {<<>>}
    ELSE SeqsUpTo(S, n - 1) \cup {Append(q, x) : q \in SeqsUpTo(S, n - 1), x \in S}

HostHC == <<"h", ".", "c">>

UserGit == <<"g", "i", "t">>

\* the shorthand inputs whose path has the segments segs
ScpShapes(segs) ==
    {Shape("scp", lead, <<>>, user, host, sep, prefix, segs, suffix) :
        lead \in {<<>>, <<" ">>}, user \in {<<>>, UserGit},
        host \in {HostHC, <<>>, <<"d", "/", "s">>}, sep \in {Colon, <<>>},
        prefix \in {<<>>, Slash, <<".", "/">>, <<" ">>},
        suffix \in {<<>>, Slash}}

\* the URL inputs whose path has the segments segs
UrlShapes(segs) ==
    {Shape("url", lead, scheme, user, host, <<>>, prefix, segs, suffix) :
        lead \in {<<>>, <<" ">>},
        scheme \in {TransportSSH, <<"H", "T", "T", "P", "S">>, <<"f", "t", "p">>, <<>>},
        user \in {<<>>, UserGit},
        host \in {HostHC, <<>>, <<"h", ".", "c", ":", "2", "2">>},
        prefix \in {<<>>, Slash, <<".", "/">>, <<" ">>},
        suffix \in {<<>>, Slash}}

ParseShapes(segs) == ScpShapes(segs) \cup UrlShapes(segs)

----------------------------------------------------------------------------
(* The calling code: Parse, then Match on the parsed remote *)

DoParse ==
    /\ pc = "start"
    /\ \E r \in {Parse(input)} : parsed' = r.remote /\ parseErr' = r.err
    /\ pc' = "parsed"
    /\ UNCHANGED <<shape, input, rules, matchRes, matchErr>>
    /\ UNCHANGED <<inferVars, resolveVars, commandVars, otherVars>>

DoMatch ==
    /\ pc = "parsed"
    /\ parsed # <<>>
    /\ \E m \in {Match(rules, parsed)} : matchRes' = m.res /\ matchErr' = m.err
    /\ pc' = "matched"
    /\ UNCHANGED <<shape, input, parsed, parseErr, rules>>
    /\ UNCHANGED <<inferVars, resolveVars, commandVars, otherVars>>

\* the variables a specification does not use keep these values
IdleInfer == argv = <<>> /\ target = <<>> /\ inferErr = "" /\ positionals = <<>>

IdleResolve == cfg = <<>> /\ environ = <<>> /\ result = <<>> /\ resultErr = <<>>

IdleCommand == keyPath = <<>> /\ sshCommand = <<>>

IdleConfig == confRules = <<>> /\ lastCall = <<>>

IdlePath == fsys = {} /\ custom = <<>> /\ confPath = <<>> /\ confPathErr = ""

IdleEnsure == changed = FALSE /\ ensureErr = "" /\ fsBefore = {}

IdleMenu ==
    /\ items = <<>> /\ selected = 0 /\ numberBuf = <<>> /\ menu = <<>> /\ menuErr = ""
    /\ keys = <<>> /\ stdin = <<>> /\ answer = <<>>

IdleExec ==
    /\ opts = <<>> /\ gitRepo = <<>> /\ remoteURL = <<>> /\ extraEnv = {} /\ gitRun = <<>>
    /\ exitCode = 0

IdleOther == IdleConfig /\ IdlePath /\ IdleEnsure /\ IdleMenu /\ IdleExec

InitParse ==
    /\ pc = "start"
    /\ IdleInfer /\ IdleResolve /\ IdleCommand /\ IdleOther
    /\ \E segs \in SeqsUpTo(SegPool, MaxSegs) : shape \in ParseShapes(segs)
    /\ input = InputOf(shape)
    /\ parsed = <<>>
    /\ parseErr = ""
    /\ rules = <<>>
    /\ matchRes = <<>>
    /\ matchErr = <<>>

NextParse == DoParse

SpecParse == InitParse /\ [][NextParse]_vars

----------------------------------------------------------------------------
(* Claims about Parse, checked under SpecParse *)

Done == pc = "parsed"

ParseFailed == parsed = <<>> /\ parseErr # ""

ParseOK == parsed # <<>> /\ parseErr = ""

\* the non-empty '/'-separated segments of a shape's repository path
PathSegs(sh) == DropEmpty(Split(PathOf(sh), Slash))

Front(q) == SubSeq(q, 1, Len(q) - 1)

Last(q) == q[Len(q)]

\* the part of the input before the repository path is well formed for its grammar
HeadOK(sh) ==
    IF sh.g = "url"
    THEN sh.scheme # <<>> /\ sh.host # <<>>
    ELSE sh.sep = Colon /\ sh.host # <<>> /\ ~Contains(InputOf(sh), SchemeSep)

\* C7: Parse returns either an error and no descriptor, or a descriptor whose
\* host, ownershipPath and repositoryName are all non-empty.
C7_ParseAllOrNothing ==
    Done =>
        \/ ParseFailed
        \/ /\ ParseOK
           /\ parsed[1].Host # <<>>
           /\ parsed[1].Owner # <<>>
           /\ parsed[1].Repo # <<>>

\* C7 witness: both grammars produced a descriptor somewhere; here a URL one with
\* a nested ownershipPath, next to the inputs that fail.
C7_Witness ==
    /\ Done /\ ParseOK
    /\ shape.g = "url"
    /\ Contains(parsed[1].Owner, Slash)

\* the shorthand inputs git@host:owner/repo.git of the pool, as C8 describes them
IsShorthand(sh) ==
    /\ sh.g = "scp" /\ sh.lead = <<>> /\ sh.user # <<>> /\ sh.sep = Colon
    /\ sh.host # <<>> /\ ~ContainsAny(sh.host, {":", "/"})
    /\ sh.prefix = <<>> /\ sh.suffix = <<>>
    /\ Len(sh.segs) = 2
    /\ HasSuffix(sh.segs[2], DotGit) /\ sh.segs[2] # DotGit

ShorthandResult(sh) ==
    /\ ParseOK
    /\ IsSSH(parsed[1])
    /\ parsed[1].User = sh.user
    /\ parsed[1].Host = sh.host
    /\ parsed[1].Owner = sh.segs[1]
    /\ parsed[1].Repo = SubSeq(sh.segs[2], 1, Len(sh.segs[2]) - Len(DotGit))

NeverOtherTransport ==
    (Done /\ ParseOK /\ ~Contains(input, SchemeSep)) => IsSSH(parsed[1])

\* C8 as stated: every shorthand input user@host:owner/repo.git with non-empty
\* owner and repo segments parses to ssh with these four parts.
C8_Original ==
    /\ (Done /\ IsShorthand(shape)) => ShorthandResult(shape)
    /\ NeverOtherTransport

\* C8 amended: the same for every such input whose owner segment is not ".";
\* an input without "://" never yields a transport other than ssh.
C8_ShorthandParts ==
    /\ (Done /\ IsShorthand(shape) /\ shape.segs[1] # <<".">>) => ShorthandResult(shape)
    /\ NeverOtherTransport

C8_Witness ==
    /\ Done /\ IsShorthand(shape) /\ shape.segs[1] # <<".">>
    /\ parsed # <<>> /\ parsed[1].Repo = <<"r">>

\* the result C9 describes for a path with segments q
SplitResult(q) ==
    /\ ParseOK
    /\ parsed[1].Owner = Join(Front(q), Slash)
    /\ parsed[1].Repo = TrimSuffix(Last(q), DotGit)

PlainSegs(q) == Len(q) >= 2 /\ \A i \in 1..Len(q) : q[i] \notin {<<".">>, <<".", ".">>}

TooFewSegsFail == (Done /\ Len(PathSegs(shape)) < 2) => ParseFailed

\* C9 as stated: n >= 2 non-empty segments, none "." or "..", give the first n-1
\* joined as ownershipPath and the last without ".git" as repositoryName.
C9_Original ==
    /\ (Done /\ HeadOK(shape) /\ PlainSegs(PathSegs(shape))) => SplitResult(PathSegs(shape))
    /\ TooFewSegsFail

\* C9 amended: the same provided the last segment is not exactly ".git" and the
\* path has no leading or trailing whitespace; fewer than two segments fail.
C9_SplitOwnerRepo ==
    /\ (/\ Done /\ HeadOK(shape) /\ PlainSegs(PathSegs(shape))
        /\ Last(PathSegs(shape)) # DotGit
        /\ TrimSpace(PathOf(shape)) = PathOf(shape))
       => SplitResult(PathSegs(shape))
    /\ TooFewSegsFail

C9_Witness ==
    /\ Done /\ HeadOK(shape) /\ PlainSegs(PathSegs(shape))
    /\ Len(PathSegs(shape)) = 3
    /\ Last(PathSegs(shape)) # DotGit
    /\ TrimSpace(PathOf(shape)) = PathOf(shape)
    /\ shape.g = "url"
    /\ parsed # <<>> /\ Contains(parsed[1].Owner, Slash)

\* C10: an input with no ':' at all (so no "://" either) makes Parse fail.
C10_NoColonFails == (Done /\ ~Contains(input, Colon)) => ParseFailed

C10_Witness ==
    /\ Done /\ ~Contains(input, Colon)
    /\ Contains(input, Slash) /\ Len(PathSegs(shape)) >= 2
    /\ shape.host # <<>>
    /\ ParseFailed

\* the text between the optional "user@" and the first ':' of a shorthand input
ShorthandHostText(in) ==
    LET s    == TrimSpace(in)
        at   == Index(s, <<"@">>)
        tail == IF at >= 2 THEN From(s, at + 1) ELSE s
    IN  CutBefore(tail, Colon)

\* C11: an input without "://" whose text between "user@" and the first ':' holds a
\* '/' is rejected, and no descriptor has a host containing '/'.
C11_NoSlashInHost ==
    Done =>
        /\ (~Contains(input, SchemeSep) /\ Contains(ShorthandHostText(input), Slash))
              => ParseFailed
        /\ ParseOK => ~Contains(parsed[1].Host, Slash)

\* C12 as stated: the descriptor's Original is the input exactly as passed.
C12_Original == (Done /\ ParseOK) => parsed[1].Original = input

\* C12 amended: the descriptor's Original is the input without its leading and
\* trailing whitespace.
C12_OriginalTrimmed == (Done /\ ParseOK) => parsed[1].Original = TrimSpace(input)

C12_Witness ==
    /\ Done /\ ParseOK
    /\ shape.lead # <<>>
    /\ parsed[1].Original # input
    /\ parsed[1].Original = TrimSpace(input)

----------------------------------------------------------------------------
(* Inputs of the matcher: a few remotes and every short list over a rule pool *)

LongOwner == [i \in 1..LongLen |-> "a"]

RepoGit == <<"r", ".", "g", "i", "t">>

ScpRemote(host, segs) == Shape("scp", <<>>, <<>>, UserGit, host, Colon, <<>>, segs, <<>>)

MatchShapes ==
    { ScpRemote(HostHC, <<<<"o">>, RepoGit>>),
      ScpRemote(<<"H", ".", "c">>, <<<<"O">>, RepoGit>>),
      ScpRemote(HostHC, <<<<"g">>, <<"s">>, RepoGit>>),
      ScpRemote(HostHC, <<<<"[", "o">>, <<"r">>>>),
      ScpRemote(HostHC, <<LongOwner, <<"r">>>>),
      ScpRemote(HostHC, <<<<LongS>>, <<"r">>>>),
      Shape("url", <<>>, TransportHTTPS, <<>>, HostHC, <<>>, <<>>, <<<<"o">>, RepoGit>>, <<>>),
      Shape("url", <<>>, TransportSSH, UserGit, <<"h", ".", "c", ":", "2", "2">>, <<>>,
            <<" ">>, <<<<"o">>, <<"r">>>>, <<>>),
      Shape("scp", <<>>, <<>>, <<>>, HostHC, Slash, <<>>, <<<<"o">>, <<"r">>>>, <<>>) }

RulePool ==
    { Rule("any",    Star, Star, "~/.ssh/any", 1),
      Rule("empty",  <<>>, <<>>, "~/.ssh/empty", 0),
      Rule("host",   HostHC, Star, "~/.ssh/host", 0),
      Rule("upper",  HostHC, <<"O">>, "~/.ssh/upper", 0),
      Rule("lower",  <<"H", ".", "C">>, <<"o">>, "~/.ssh/lower", 0),
      Rule("sub",    HostHC, <<"?", "/", "*">>, "~/.ssh/sub", 0),
      Rule("brack",  HostHC, <<"[", "o">>, "~/.ssh/brack", 0),
      Rule("long",   HostHC, LongOwner, "~/.ssh/long", 0),
      Rule("class",  <<"[", "G", "-", "H", "]", ".", "*">>, <<"\\", "o">>, "~/.ssh/class", 1),
      Rule("space",  HostHC, <<" ", "o">>, "~/.ssh/space", 0),
      Rule("longs",  HostHC, <<LongS>>, "~/.ssh/longs", 0) }

InitMatch ==
    /\ pc = "start"
    /\ IdleInfer /\ IdleResolve /\ IdleCommand /\ IdleOther
    /\ shape \in MatchShapes
    /\ input = InputOf(shape)
    /\ parsed = <<>>
    /\ parseErr = ""
    /\ rules \in SeqsUpTo(RulePool, MaxRules)
    /\ matchRes = <<>>
    /\ matchErr = <<>>

NextMatch == DoParse \/ DoMatch

SpecMatch == InitMatch /\ [][NextMatch]_vars

----------------------------------------------------------------------------
(* Claims about Match, checked under SpecMatch *)

Matched == pc = "matched"

\* a pattern of a rule matches a value of the remote: lower-cased on both sides,
\* the empty pattern standing for "*"
PatternMatches(pattern, value) == globOK(normalizePattern(ToLower(pattern)), ToLower(value))

RuleMatches(r, remote) ==
    PatternMatches(r.Host, remote.Host) /\ PatternMatches(r.Owner, remote.Owner)

IsCatchAll(r) == r.Host \in {Star, <<>>} /\ r.Owner \in {Star, <<>>}

Selected(i) == matchRes # <<>> /\ matchErr = <<>> /\ matchRes[1].Index = i - 1

\* C1: a rule list holding one rule with host "*" and owner "*" (or empty patterns)
\* matches every remote Parse produces, nested ownershipPath included.
C1_DefaultFallback ==
    (Matched /\ Len(rules) = 1 /\ IsCatchAll(rules[1]))
        => (Selected(1) /\ matchRes[1].Rule = rules[1])

\* C2: of two matching rules, the one with the strictly lower priority is never
\* selected, whatever the patterns.
C2_PriorityDominates ==
    Matched =>
        \A i, j \in 1..Len(rules) :
            (/\ RuleMatches(rules[i], parsed[1])
             /\ RuleMatches(rules[j], parsed[1])
             /\ rules[i].Priority > rules[j].Priority) => ~Selected(j)

\* the two-rule lists of C3: equal priority, the same host pattern, which matches,
\* rule w with owner "*" and rule l with the remote's ownershipPath as owner
WildAndLiteral(w, l) ==
    /\ Len(rules) = 2 /\ {w, l} = {1, 2}
    /\ rules[w].Priority = rules[l].Priority
    /\ rules[w].Host = rules[l].Host
    /\ PatternMatches(rules[w].Host, parsed[1].Host)
    /\ rules[w].Owner = Star
    /\ EqualFold(rules[l].Owner, parsed[1].Owner)

PlainOwner(o) ==
    /\ \A i \in 1..Len(o) : o[i] \in AsciiSet
    /\ ~ContainsAny(o, {"*", "?", "[", "\\"})
    /\ TrimSpace(o) = o

RuleResults == [i \in 1..Len(rules) |-> matchRule(rules[i], parsed[1])]

\* k is the first position of maximal score among the candidates of mr
FirstMaximal(mr, k) ==
    /\ k \in DOMAIN mr /\ mr[k].ok
    /\ \A j \in DOMAIN mr : mr[j].ok => mr[j].score <= mr[k].score
    /\ \A j \in DOMAIN mr : (mr[j].ok /\ mr[j].score = mr[k].score) => k <= j

\* C4: the result is a candidate of maximal score, the first of those in list
\* order, and Index is its position.
C4_FirstMaximal ==
    (Matched /\ matchRes # <<>>) =>
        \A mr \in {RuleResults} :
            /\ FirstMaximal(mr, matchRes[1].Index + 1)
            /\ matchRes[1].Rule = rules[matchRes[1].Index + 1]
            /\ matchRes[1].Score = mr[matchRes[1].Index + 1].score

\* C4 witness: two different candidates tie on the maximal score.
C4_Witness ==
    /\ Matched /\ matchRes # <<>>
    /\ Len(rules) = 2 /\ rules[1] # rules[2]
    /\ \A mr \in {RuleResults} : mr[1].ok /\ mr[2].ok /\ mr[1].score = mr[2].score
    /\ matchRes[1].Index = 0

NoRuleMatches == \A i \in 1..Len(rules) : ~RuleMatches(rules[i], parsed[1])

\* C5: Match fails exactly when no rule matches in both patterns, and the error
\* names the remote's host and ownershipPath; otherwise a rule and no error.
C5_NoRuleError ==
    Matched =>
        IF NoRuleMatches
        THEN /\ matchRes = <<>>
             /\ matchErr = <<[kind |-> "no SSH key rule matched",
                              host |-> parsed[1].Host, owner |-> parsed[1].Owner]>>
        ELSE matchRes # <<>> /\ matchErr = <<>>

\* C5 witness: a non-empty rule list of which nothing matches a mixed-case remote.
C5_Witness ==
    /\ Matched /\ rules # <<>> /\ NoRuleMatches
    /\ matchErr # <<>>
    /\ ToLower(parsed[1].Host) # parsed[1].Host

\* what C6 calls the outcome of Match
Outcome(m) ==
    [failed |-> m.res = <<>>,
     index  |-> IF m.res = <<>> THEN -1 ELSE m.res[1].Index,
     score  |-> IF m.res = <<>> THEN 0 ELSE m.res[1].Score]

SwapCase(s) ==
    [i \in 1..Len(s) |-> IF IsUpper(s[i]) THEN ToLowerChar(s[i]) ELSE ToUpperChar(s[i])]

\* s with the case of the letter at position k changed
FlipAt(s, k) == [s EXCEPT ![k] = IF IsUpper(s[k]) THEN ToLowerChar(s[k]) ELSE ToUpperChar(s[k])]

\* the inputs that differ from (rules, remote) in the letter case of one field
\* (lowered, raised or swapped), or of its first letter, or of every field at once
CaseVariants(rs, remote) ==
    LET fs(x) == ({ToLower(x), ToUpper(x), SwapCase(x)}
                  \cup {FlipAt(x, k) : k \in {n \in 1..Len(x) : n <= 1}}) \ {x}
    IN  {<<rs, [remote EXCEPT !.Host = h]>> : h \in fs(remote.Host)}
        \cup {<<rs, [remote EXCEPT !.Owner = o]>> : o \in fs(remote.Owner)}
        \cup UNION {{<<[rs EXCEPT ![i].Host = h], remote>> : h \in fs(rs[i].Host)} : i \in 1..Len(rs)}
        \cup UNION {{<<[rs EXCEPT ![i].Owner = o], remote>> : o \in fs(rs[i].Owner)} : i \in 1..Len(rs)}
        \cup {<<[i \in 1..Len(rs) |-> [rs[i] EXCEPT !.Host = SwapCase(@), !.Owner = SwapCase(@)]],
                [remote EXCEPT !.Host = SwapCase(@), !.Owner = SwapCase(@)]>>}

SameOutcome(v) ==
    Outcome(Match(v[1], <<v[2]>>)) = Outcome([res |-> matchRes, err |-> matchErr])

\* C6 as stated: changing the letter case of a pattern or of the remote's host or
\* ownershipPath changes neither success, nor the selected position, nor the score.
C6_Original ==
    Matched => \A v \in CaseVariants(rules, parsed[1]) : SameOutcome(v)

AsciiOnly(s) == \A i \in 1..Len(s) : s[i] \in AsciiSet

AllAscii(rs, remote) ==
    /\ AsciiOnly(remote.Host) /\ AsciiOnly(remote.Owner)
    /\ \A i \in 1..Len(rs) : AsciiOnly(rs[i].Host) /\ AsciiOnly(rs[i].Owner)

\* C6 amended: the same, when the patterns and the remote's host and ownershipPath
\* consist of ASCII characters.
C6_CaseInsensitive ==
    (Matched /\ AllAscii(rules, parsed[1])) =>
        \A v \in CaseVariants(rules, parsed[1]) : SameOutcome(v)

\* C6 witness: an upper-case remote matched by a rule written in the other case.
C6_Witness ==
    /\ Matched /\ matchRes # <<>>
    /\ AllAscii(rules, parsed[1])
    /\ ToLower(parsed[1].Owner) # parsed[1].Owner
    /\ ToLower(matchRes[1].Rule.Owner) = matchRes[1].Rule.Owner
    /\ ~hasWildcard(matchRes[1].Rule.Owner)
    /\ matchRes[1].Rule.Owner # <<>>

\* the (pattern, value) pairs matchRule hands to specificityScore for rule r
ScoredPairs(r, remote) ==
    {<<hostPatternOf(r), hostValueOf(remote)>>, <<ownerPatternOf(r), ownerValueOf(remote)>>}

IsCandidate(r, remote) == matchRule(r, remote).ok

\* C26, as stated: for a candidate, a pattern with none of '*', '?', '[' equals the
\* lower-cased value and scores 400; the 300 branch is never taken.
C26_Original ==
    Matched =>
        \A i \in 1..Len(rules) : IsCandidate(rules[i], parsed[1]) =>
            \A pv \in ScoredPairs(rules[i], parsed[1]) :
                /\ ~ContainsAny(pv[1], {"*", "?", "["}) =>
                       pv[1] = pv[2] /\ specificityScore(pv[1], pv[2]) = 400
                /\ specificityScore(pv[1], pv[2]) # 300

\* C26, amended: for a candidate, a pattern with none of '*', '?', '[' and no
\* backslash equals the lower-cased value and scores 400; the 300 branch is taken
\* only for a pattern that holds a backslash escape.
C26_Literal400 ==
    Matched =>
        \A i \in 1..Len(rules) : IsCandidate(rules[i], parsed[1]) =>
            \A pv \in ScoredPairs(rules[i], parsed[1]) :
                /\ ~ContainsAny(pv[1], {"*", "?", "[", "\\"}) =>
                       pv[1] = pv[2] /\ specificityScore(pv[1], pv[2]) = 400
                /\ specificityScore(pv[1], pv[2]) = 300 => ContainsAny(pv[1], {"\\"})

\* C26 witness: a candidate whose owner pattern is a literal written in another case
\* than the remote's owner.
C26_Witness ==
    /\ Matched
    /\ \E i \in 1..Len(rules) :
        /\ IsCandidate(rules[i], parsed[1])
        /\ ~ContainsAny(rules[i].Owner, {"*", "?", "[", "\\"})
        /\ TrimSpace(rules[i].Owner) # <<>>
        /\ rules[i].Owner # parsed[1].Owner
        /\ specificityScore(ownerPatternOf(rules[i]), ownerValueOf(parsed[1])) = 400

----------------------------------------------------------------------------
(* package runner: InferGitTarget and positionalArgs *)

TargetNone == "none"

TargetRemote == "remote"

TargetURL == "url"

GitTarget(kind, command, remoteName, url, notes, skip) ==
    [Kind |-> kind, Command |-> command, RemoteName |-> remoteName, URL |-> url,
     Notes |-> notes, SkipSSHSelection |-> skip]

CmdPush == <<"p", "u", "s", "h">>

CmdFetch == <<"f", "e", "t", "c", "h">>

CmdPull == <<"p", "u", "l", "l">>

CmdClone == <<"c", "l", "o", "n", "e">>

CmdLsRemote == <<"l", "s", "-", "r", "e", "m", "o", "t", "e">>

CmdRemote == <<"r", "e", "m", "o", "t", "e">>

SetUrl == <<"s", "e", "t", "-", "u", "r", "l">>

CmdRemoteSetUrl == <<"r", "e", "m", "o", "t", "e", " ", "s", "e", "t", "-", "u", "r", "l">>

DashDash == <<"-", "-">>

\* the flags of takesValue's switch
ValueFlags ==
    {<<"-", "c">>, <<"-", "-", "c", "o", "n", "f", "i", "g">>, <<"-", "C">>,
     <<"-", "-", "u", "p", "l", "o", "a", "d", "-", "p", "a", "c", "k">>,
     <<"-", "-", "r", "e", "c", "e", "i", "v", "e", "-", "p", "a", "c", "k">>, <<"-", "o">>}

\* variant of takesValue: "-o" is left out
takesValue_m(flag) ==
    IF Contains(flag, <<"=">>) THEN FALSE ELSE flag \in ValueFlags \ {<<"-", "o">>}

takesValue(flag) == IF Contains(flag, <<"=">>) THEN FALSE ELSE flag \in ValueFlags

\* the loop of positionalArgs from position i (1-based), out being what was appended
RECURSIVE positionalFrom(_, _, _)
positionalFrom(args, i, out) ==
    IF i > Len(args) THEN out
    ELSE IF args[i] = DashDash THEN out \o From(args, i + 1)
    ELSE IF args[i] = <<>> THEN positionalFrom(args, i + 1, out)
    ELSE IF HasPrefix(args[i], <<"-">>)
    THEN positionalFrom(args, IF takesValue(args[i]) /\ i + 1 <= Len(args) THEN i + 2 ELSE i + 1,
                        out)
    ELSE positionalFrom(args, i + 1, Append(out, args[i]))

positionalArgs(args) == positionalFrom(args, 1, <<>>)

Inferred(t) == [target |-> t, err |-> ""]

\* variant of inferRemoteOrURL: the last positional decides
inferRemoteOrURL_m(cmd, pos, note) ==
    IF Len(pos) = 0 THEN Inferred(GitTarget(TargetNone, cmd, <<>>, <<>>, note, FALSE))
    ELSE IF IsLikelyRemoteURL(pos[Len(pos)])
    THEN Inferred(GitTarget(TargetURL, cmd, <<>>, pos[Len(pos)], "", FALSE))
    ELSE Inferred(GitTarget(TargetRemote, cmd, pos[Len(pos)], <<>>, "", FALSE))

\* lines 33-41 and 48-56: push, fetch, pull and ls-remote, pos being the positionals
inferRemoteOrURL(cmd, pos, note) ==
    IF Len(pos) = 0 THEN Inferred(GitTarget(TargetNone, cmd, <<>>, <<>>, note, FALSE))
    ELSE IF IsLikelyRemoteURL(pos[1])
    THEN Inferred(GitTarget(TargetURL, cmd, <<>>, pos[1], "", FALSE))
    ELSE Inferred(GitTarget(TargetRemote, cmd, pos[1], <<>>, "", FALSE))

\* variant of inferClone: a name that is not URL-like is taken as a remote name
inferClone_m(cmd, pos) ==
    IF Len(pos) = 0
    THEN [target |-> GitTarget(TargetNone, cmd, <<>>, <<>>, "", FALSE),
          err    |-> "clone requires repository URL"]
    ELSE inferRemoteOrURL(cmd, pos, "")

\* lines 42-47: clone
inferClone(cmd, pos) ==
    IF Len(pos) = 0
    THEN [target |-> GitTarget(TargetNone, cmd, <<>>, <<>>, "", FALSE),
          err    |-> "clone requires repository URL"]
    ELSE Inferred(GitTarget(TargetURL, cmd, <<>>, pos[1], "", FALSE))

\* variant of inferSetUrl: the first positional is looked at
inferSetUrl_m(cmd, pos) ==
    IF Len(pos) >= 2 /\ IsLikelyRemoteURL(pos[1])
    THEN Inferred(GitTarget(TargetURL, CmdRemoteSetUrl, <<>>, pos[1],
                            "local config update; SSH key selection not required", TRUE))
    ELSE Inferred(GitTarget(TargetNone, cmd, <<>>, <<>>, "", FALSE))

\* lines 59-72 and 74: remote set-url, pos being the positionals after set-url
inferSetUrl(cmd, pos) ==
    IF Len(pos) >= 2 /\ IsLikelyRemoteURL(pos[2])
    THEN Inferred(GitTarget(TargetURL, CmdRemoteSetUrl, <<>>, pos[2],
                            "local config update; SSH key selection not required", TRUE))
    ELSE Inferred(GitTarget(TargetNone, cmd, <<>>, <<>>, "", FALSE))

\* variant of InferGitTarget: clone without a repository gives no error
InferGitTarget_m(args) ==
    IF Len(args) = 0 THEN Inferred(GitTarget(TargetNone, <<>>, <<>>, <<>>, "", FALSE))
    ELSE IF args[1] \in {CmdPush, CmdFetch, CmdPull}
    THEN inferRemoteOrURL(args[1], positionalArgs(Tail(args)), "remote not specified explicitly")
    ELSE IF args[1] = CmdClone
    THEN Inferred(inferClone(args[1], positionalArgs(Tail(args))).target)
    ELSE IF args[1] = CmdLsRemote
    THEN inferRemoteOrURL(args[1], positionalArgs(Tail(args)), "no repository argument")
    ELSE IF args[1] = CmdRemote /\ Len(args) >= 2 /\ args[2] = SetUrl
    THEN inferSetUrl(args[1], positionalArgs(From(args, 3)))
    ELSE Inferred(GitTarget(TargetNone, args[1], <<>>, <<>>, "", FALSE))

\* InferGitTarget: [target, err]
InferGitTarget(args) ==
    IF Len(args) = 0 THEN Inferred(GitTarget(TargetNone, <<>>, <<>>, <<>>, "", FALSE))
    ELSE IF args[1] \in {CmdPush, CmdFetch, CmdPull}
    THEN inferRemoteOrURL(args[1], positionalArgs(Tail(args)), "remote not specified explicitly")
    ELSE IF args[1] = CmdClone
    THEN inferClone(args[1], positionalArgs(Tail(args)))
    ELSE IF args[1] = CmdLsRemote
    THEN inferRemoteOrURL(args[1], positionalArgs(Tail(args)), "no repository argument")
    ELSE IF args[1] = CmdRemote /\ Len(args) >= 2 /\ args[2] = SetUrl
    THEN inferSetUrl(args[1], positionalArgs(From(args, 3)))
    ELSE Inferred(GitTarget(TargetNone, args[1], <<>>, <<>>, "", FALSE))

----------------------------------------------------------------------------
(* Inputs of InferGitTarget: a subcommand followed by up to MaxArgs tokens *)

MaxArgs == 3

CmdPool ==
    {CmdPush, CmdFetch, CmdPull, CmdClone, CmdLsRemote, CmdRemote,
     <<"C", "l", "o", "n", "e">>, <<"s", "t", "a", "t", "u", "s">>}

ArgPool ==
    {<<"o", "r", "i", "g", "i", "n">>, <<"h", ":", "o", "/", "r">>,
     <<"s", ":", "/", "/", "h">>, DashDash, <<"-", "c">>, <<"-", "o">>,
     <<"-", "-", "p", "r", "u", "n", "e">>, <<>>, SetUrl, <<"-", "c", "=", "x">>}

\* the arguments InferGitTarget hands to positionalArgs: <<>> (no scan) or <<slice>>
scannedArgs(args) ==
    IF Len(args) = 0 THEN <<>>
    ELSE IF args[1] \in {CmdPush, CmdFetch, CmdPull, CmdClone, CmdLsRemote} THEN <<Tail(args)>>
    ELSE IF args[1] = CmdRemote /\ Len(args) >= 2 /\ args[2] = SetUrl THEN <<From(args, 3)>>
    ELSE <<>>

DoInfer ==
    /\ pc = "start"
    /\ \E r \in {InferGitTarget(argv)} : target' = <<r.target>> /\ inferErr' = r.err
    /\ \E a \in {scannedArgs(argv)} :
           positionals' = IF a = <<>> THEN <<>> ELSE <<positionalArgs(a[1])>>
    /\ pc' = "inferred"
    /\ UNCHANGED <<argv, remoteVars, resolveVars, commandVars, otherVars>>

IdleRemote ==
    /\ shape = <<>> /\ input = <<>> /\ parsed = <<>> /\ parseErr = ""
    /\ rules = <<>> /\ matchRes = <<>> /\ matchErr = <<>>

InitInfer ==
    /\ pc = "start"
    /\ IdleRemote /\ IdleResolve /\ IdleCommand /\ IdleOther
    /\ \/ argv = <<>>
       \/ \E cmd \in CmdPool, rest \in SeqsUpTo(ArgPool, MaxArgs) : argv = <<cmd>> \o rest
    /\ target = <<>>
    /\ inferErr = ""
    /\ positionals = <<>>

NextInfer == DoInfer

SpecInfer == InitInfer /\ [][NextInfer]_vars

----------------------------------------------------------------------------
(* Claims about InferGitTarget, checked under SpecInfer *)

InferDone == pc = "inferred"

CommandIs(cmds) == argv # <<>> /\ argv[1] \in cmds

\* C13: InferGitTarget fails exactly for "clone" without a positional argument;
\* every other argument vector gives a target and no error.
C13_OnlyCloneFails ==
    InferDone =>
        /\ target # <<>>
        /\ inferErr # "" <=> (CommandIs({CmdClone}) /\ positionalArgs(Tail(argv)) = <<>>)

\* C13 witness: clone followed by flags only fails.
C13_Witness ==
    /\ InferDone /\ CommandIs({CmdClone}) /\ Len(argv) >= 3
    /\ positionals = <<<<>>>>
    /\ inferErr = "clone requires repository URL"

\* C14: for push, fetch, pull and ls-remote, no positional gives kind none with a
\* note; otherwise the first positional alone decides: kind url with that URL when
\* it is URL-like, else kind remote with that remote name.
C14_FirstPositionalDecides ==
    (InferDone /\ CommandIs({CmdPush, CmdFetch, CmdPull, CmdLsRemote})) =>
        \A p \in {positionalArgs(Tail(argv))} :
            /\ inferErr = ""
            /\ IF p = <<>>
               THEN target[1].Kind = TargetNone /\ target[1].Notes # ""
               ELSE IF Contains(p[1], SchemeSep) \/ scpLikeMatch(p[1]).ok
               THEN /\ target[1].Kind = TargetURL /\ target[1].URL = p[1]
                    /\ target[1].RemoteName = <<>>
               ELSE /\ target[1].Kind = TargetRemote /\ target[1].RemoteName = p[1]
                    /\ target[1].URL = <<>>

\* C14 witness: a remote name followed by a URL-like second positional.
C14_Witness ==
    /\ InferDone /\ CommandIs({CmdPush, CmdFetch, CmdPull, CmdLsRemote})
    /\ positionals # <<>> /\ Len(positionals[1]) >= 2
    /\ ~IsLikelyRemoteURL(positionals[1][1]) /\ IsLikelyRemoteURL(positionals[1][2])
    /\ target[1].Kind = TargetRemote

\* C15: clone with a positional argument gives kind url with the first positional
\* as URL, URL-like or not.
C15_CloneIsURL ==
    (InferDone /\ CommandIs({CmdClone}) /\ positionalArgs(Tail(argv)) # <<>>) =>
        /\ inferErr = ""
        /\ target[1].Kind = TargetURL
        /\ target[1].URL = positionalArgs(Tail(argv))[1]
        /\ target[1].RemoteName = <<>>

\* C15 witness: the first positional of clone is not URL-like.
C15_Witness ==
    /\ InferDone /\ CommandIs({CmdClone})
    /\ positionals # <<>> /\ positionals[1] # <<>> /\ ~IsLikelyRemoteURL(positionals[1][1])
    /\ target[1].Kind = TargetURL

\* token i of a follows a value-taking flag
FollowsFlag(a, i) == i > 1 /\ a[i - 1] \in ValueFlags

\* token i of a is the value of a value-taking flag that is itself read as a flag
RECURSIVE ConsumedAt(_, _)
ConsumedAt(a, i) == i > 1 /\ a[i - 1] \in ValueFlags /\ ~ConsumedAt(a, i - 1)

\* the positions before `term` that are kept, in order, then everything after `term`
KeptBefore(a, term, taken) ==
    LET keep == {i \in 1..Len(a) : i < term /\ a[i] # <<>> /\ ~HasPrefix(a[i], <<"-">>)
                                   /\ i \notin taken}
        f[n \in 0..Len(a)] ==
            IF n = 0 THEN <<>> ELSE IF n \in keep THEN Append(f[n - 1], a[n]) ELSE f[n - 1]
    IN  f[Len(a)] \o From(a, term + 1)

FirstOf(S, default) == IF S = {} THEN default ELSE SetMin(S)

\* the scan as C16 states it: the value of a flag is any token after a value flag
StatedScan(a) ==
    LET taken == {i \in 1..Len(a) : FollowsFlag(a, i)}
    IN  KeptBefore(a, FirstOf({i \in 1..Len(a) : a[i] = DashDash /\ i \notin taken},
                              Len(a) + 1), taken)

\* the scan with a flag's value being the token after a flag that is not itself a value
FlagAwareScan(a) ==
    LET taken == {i \in 1..Len(a) : ConsumedAt(a, i)}
    IN  KeptBefore(a, FirstOf({i \in 1..Len(a) : a[i] = DashDash /\ i \notin taken},
                              Len(a) + 1), taken)

\* C16 as stated: the scan keeps the non-empty tokens that do not start with '-' and
\* do not follow a value-taking flag, up to the first "--" that is not a flag value,
\* and everything after it.
C16_Original == (InferDone /\ positionals # <<>>) => positionals[1] = StatedScan(scannedArgs(argv)[1])

\* C16 amended: the same, a token counting as a flag's value only when the
\* value-taking flag before it is not itself the value of the flag before.
C16_PositionalScan == (InferDone /\ positionals # <<>>) => positionals[1] = FlagAwareScan(scannedArgs(argv)[1])

\* C16 witness: a value flag whose value is itself a value flag, then a positional.
C16_Witness ==
    /\ InferDone /\ positionals # <<>>
    /\ \E a \in {scannedArgs(argv)[1]} :
          /\ Len(a) = 3 /\ a[1] \in ValueFlags /\ a[2] \in ValueFlags
          /\ positionals[1] = <<a[3]>>

SetUrlCase ==
    /\ Len(argv) >= 2 /\ argv[1] = CmdRemote /\ argv[2] = SetUrl
    /\ \E p \in {positionalArgs(From(argv, 3))} : Len(p) >= 2 /\ IsLikelyRemoteURL(p[2])

\* C17: SkipSSHSelection is set exactly for "remote set-url" with two positionals
\* of which the second is URL-like, and then the target is that URL; any other
\* "remote" or unrecognized command gives kind none, no remote name, no URL.
C17_SetUrlSkips ==
    InferDone =>
        /\ target[1].SkipSSHSelection <=> SetUrlCase
        /\ SetUrlCase =>
              /\ target[1].Kind = TargetURL
              /\ target[1].URL = positionalArgs(From(argv, 3))[2]
        /\ (~SetUrlCase /\ ~CommandIs({CmdPush, CmdFetch, CmdPull, CmdClone, CmdLsRemote})) =>
              /\ target[1].Kind = TargetNone
              /\ target[1].RemoteName = <<>>
              /\ target[1].URL = <<>>
              /\ inferErr = ""

\* C17 witness: remote set-url with a flag, a name and a URL.
C17_Witness ==
    /\ InferDone /\ SetUrlCase
    /\ target[1].SkipSSHSelection
    /\ target[1].URL # <<>>

\* C28: a target of kind "remote" has a non-empty RemoteName and a target of kind
\* "url" has a non-empty URL, for every argument vector.
C28_NonEmptyPayload ==
    InferDone =>
        /\ target[1].Kind = TargetRemote => target[1].RemoteName # <<>>
        /\ target[1].Kind = TargetURL => target[1].URL # <<>>

----------------------------------------------------------------------------
(* package runner: BuildGITSSHCommand and shellQuote *)

Quote == "'"

\* strings.ReplaceAll(s, "'", `'"'"'`)
RECURSIVE escapeQuotes(_)
escapeQuotes(s) ==
    IF s = <<>> THEN <<>>
    ELSE IF s[1] = Quote THEN <<Quote, "\"", Quote, "\"", Quote>> \o escapeQuotes(Tail(s))
    ELSE <<s[1]>> \o escapeQuotes(Tail(s))

\* variant of shellQuote: single quotes are not replaced
shellQuote_m(s) == IF s = <<>> THEN <<Quote, Quote>> ELSE <<Quote>> \o s \o <<Quote>>

shellQuote(s) ==
    IF s = <<>> THEN <<Quote, Quote>> ELSE <<Quote>> \o escapeQuotes(s) \o <<Quote>>

SshPrefix == <<"s", "s", "h", " ", "-", "F", " ", "/", "d", "e", "v", "/", "n", "u", "l", "l", " ", "-", "i", " ">>

SshSuffix == <<" ", "-", "o", " ", "I", "d", "e", "n", "t", "i", "t", "i", "e", "s", "O", "n", "l", "y", "=", "y", "e", "s">>

BuildGITSSHCommand(path) == SshPrefix \o shellQuote(path) \o SshSuffix

----------------------------------------------------------------------------
(* How a POSIX shell splits GIT_SSH_COMMAND into words: quoting and quote removal; *)
(* a character that starts an expansion or an operator makes the split not plain  *)

ShellBlank == {" ", "\t", "\n"}

\* unquoted characters that are more than themselves to the shell
ShellSpecial == {"$", "bq", ";", "&", "|", "<", ">", "(", ")", "*", "?", "[", "#", "~"}

\* inside double quotes a backslash escapes only these
DoubleQuoteEscapable == {"$", "bq", "\"", "\\", "\n"}

\* first position from i on holding a character of stop, Len(c) + 1 when there is none
runEnd(c, i, stop) ==
    IF \E j \in i..Len(c) : c[j] \in stop
    THEN CHOOSE j \in i..Len(c) : c[j] \in stop /\ \A k \in i..(j - 1) : c[k] \notin stop
    ELSE Len(c) + 1

hasAny(c, i, j, set) == \E k \in i..j : c[k] \in set

\* the split from position i: the words finished so far, the word in progress (word,
\* with inWord telling whether there is one), the quoting mode, and whether all was
\* plain; a run of characters of one kind is taken in one step
RECURSIVE shellSplitFrom(_, _, _, _, _, _, _)
shellSplitFrom(c, i, words, word, inWord, mode, plain) ==
    IF i > Len(c)
    THEN [plain |-> plain /\ mode = "unquoted",
          words |-> IF inWord THEN Append(words, word) ELSE words]
    ELSE IF mode = "single"
    THEN \* everything up to the closing quote is literal
         LET j == runEnd(c, i, {Quote})
         IN  shellSplitFrom(c, j + 1, words, word \o SubSeq(c, i, j - 1), TRUE,
                            IF j > Len(c) THEN mode ELSE "unquoted", plain)
    ELSE IF mode = "double"
    THEN IF c[i] = "\"" THEN shellSplitFrom(c, i + 1, words, word, TRUE, "unquoted", plain)
         ELSE IF c[i] = "\\"
         THEN IF i < Len(c) /\ c[i + 1] \in DoubleQuoteEscapable
              THEN shellSplitFrom(c, i + 2, words,
                                  IF c[i + 1] = "\n" THEN word ELSE Append(word, c[i + 1]),
                                  TRUE, mode, plain)
              ELSE shellSplitFrom(c, i + 1, words, Append(word, c[i]), TRUE, mode, plain)
         ELSE LET j == runEnd(c, i, {"\"", "\\"})
              IN  shellSplitFrom(c, j, words, word \o SubSeq(c, i, j - 1), TRUE, mode,
                                 plain /\ ~hasAny(c, i, j - 1, {"$", "bq"}))
    ELSE IF c[i] \in ShellBlank
    THEN shellSplitFrom(c, i + 1, IF inWord THEN Append(words, word) ELSE words, <<>>, FALSE,
                        mode, plain)
    ELSE IF c[i] = Quote THEN shellSplitFrom(c, i + 1, words, word, TRUE, "single", plain)
    ELSE IF c[i] = "\"" THEN shellSplitFrom(c, i + 1, words, word, TRUE, "double", plain)
    ELSE IF c[i] = "\\"
    THEN IF i < Len(c)
         THEN shellSplitFrom(c, i + 2, words,
                             IF c[i + 1] = "\n" THEN word ELSE Append(word, c[i + 1]),
                             inWord \/ c[i + 1] # "\n", mode, plain)
         ELSE shellSplitFrom(c, i + 1, words, Append(word, c[i]), TRUE, mode, plain)
    ELSE LET j == runEnd(c, i, ShellBlank \cup {Quote, "\"", "\\"})
         IN  shellSplitFrom(c, j, words, word \o SubSeq(c, i, j - 1), TRUE, mode,
                            plain /\ ~hasAny(c, i, j - 1, ShellSpecial))

shellSplit(c) == shellSplitFrom(c, 1, <<>>, <<>>, FALSE, "unquoted", TRUE)

----------------------------------------------------------------------------
(* package config: ExpandPath, with the process environment it reads *)

\* the environment: home is <<>> when $HOME is unset or empty, else <<its value>>;
\* cwd is <<>> when the working directory cannot be determined, else <<its path>>
Environment(home, cwd) == [home |-> home, cwd |-> cwd]

\* os.Getenv as os.ExpandEnv calls it; HOME is the only variable here
Getenv(env, name) == IF name = <<"H", "O", "M", "E">> /\ env.home # <<>> THEN env.home[1] ELSE <<>>

isShellSpecialVar(c) == c \in {"*", "#", "$", "@", "!", "?", "-"} \/ IsDigit(c)

isAlphaNum(c) == c = "_" \/ IsDigit(c) \/ IsLetter(c)

\* os.getShellName: the name after a '$' and the number of characters it takes
getShellName(t) ==
    IF t[1] = "{"
    THEN IF Len(t) > 2 /\ isShellSpecialVar(t[2]) /\ t[3] = "}"
         THEN [name |-> <<t[2]>>, w |-> 3]
         ELSE LET i == runEnd(t, 2, {"}"})
              IN  IF i > Len(t) THEN [name |-> <<>>, w |-> 1]
                  ELSE IF i = 2 THEN [name |-> <<>>, w |-> 2]
                  ELSE [name |-> SubSeq(t, 2, i - 1), w |-> i]
    ELSE IF isShellSpecialVar(t[1]) THEN [name |-> <<t[1]>>, w |-> 1]
    ELSE LET i == runEnd(t, 1, {t[k] : k \in {k \in 1..Len(t) : ~isAlphaNum(t[k])}})
         IN  [name |-> SubSeq(t, 1, i - 1), w |-> i - 1]

\* os.ExpandEnv: each "$name" and "${name}" replaced by the variable's value
RECURSIVE ExpandEnv(_, _)
ExpandEnv(s, env) ==
    LET j == runEnd(s, 1, {"$"})
    IN  IF j >= Len(s) THEN s
        ELSE LET n == getShellName(From(s, j + 1))
             IN  SubSeq(s, 1, j - 1)
                 \o (IF n.name = <<>> /\ n.w > 0 THEN <<>>
                     ELSE IF n.name = <<>> THEN <<"$">>
                     ELSE Getenv(env, n.name))
                 \o ExpandEnv(From(s, j + 1 + n.w), env)

\* filepath.Join of two elements: the non-empty ones joined by '/', then Clean
filepathJoin(a, b) ==
    IF a = <<>> /\ b = <<>> THEN <<>>
    ELSE IF a = <<>> THEN PathClean(b)
    ELSE IF b = <<>> THEN PathClean(a)
    ELSE PathClean(a \o Slash \o b)

IsAbs(s) == HasPrefix(s, Slash)

\* lines 134-141: the absolute, cleaned path of s
absClean(s, env) ==
    IF IsAbs(s) THEN [path |-> PathClean(s), err |-> ""]
    ELSE IF env.cwd = <<>> THEN [path |-> <<>>, err |-> "resolve absolute path"]
    ELSE [path |-> PathClean(filepathJoin(env.cwd[1], s)), err |-> ""]

\* lines 123-132: a leading "~" replaced by the home directory
expandHome(s, home) ==
    IF s = <<"~">> THEN home
    ELSE IF HasPrefix(s, <<"~", "/">>) THEN filepathJoin(home, From(s, 3))
    ELSE s

\* ExpandPath: [path, err]
ExpandPath(p, env) ==
    LET s == TrimSpace(p)
    IN  IF s = <<>> THEN [path |-> <<>>, err |-> "empty path"]
        ELSE IF HasPrefix(s, <<"~">>) /\ env.home = <<>>
        THEN [path |-> <<>>, err |-> "determine home dir"]
        ELSE absClean(ExpandEnv(IF HasPrefix(s, <<"~">>) THEN expandHome(s, env.home[1]) ELSE s,
                                env), env)

----------------------------------------------------------------------------
(* package resolve: FromURL *)

Config(rs) == [Version |-> 1, Rules |-> rs]

Result(url, parsedRemote, applies, matchedRule, key, command, score, notes) ==
    [URL |-> url, Parsed |-> parsedRemote, SSHSelectionApplies |-> applies,
     MatchedRule |-> matchedRule, KeyPath |-> key, GITSSHCommand |-> command,
     MatchScore |-> score, Notes |-> notes]

\* an error of FromURL: what it says, the error it wraps, and the text added to it
ResolveError(kind, cause, detail) == [kind |-> kind, cause |-> cause, detail |-> detail]

Resolved(res) == [res |-> <<res>>, err |-> <<>>]

NotResolved(e) == [res |-> <<>>, err |-> <<e>>]

\* AddRuleHint: the host and owner put into the "mgit rule add" hint
AddRuleHint(parsedRemote) ==
    IF parsedRemote = <<>> THEN [host |-> <<"<", "h", "o", "s", "t", ">">>, owner |-> <<"<", "o", "w", "n", "e", "r", ">">>]
    ELSE [host |-> parsedRemote[1].Host, owner |-> parsedRemote[1].Owner]

NoteHTTPS == "HTTPS remote detected: SSH key selection is not applied"

NoteNotSSH(transport) == <<"transport is not SSH: SSH key selection is not applied", transport>>

\* lines 32-40: the result for a remote that is not SSH
notSSHResult(rawURL, p) ==
    Result(rawURL, <<p>>, FALSE, <<>>, <<>>, <<>>, 0,
           IF IsHTTPS(p) THEN <<NoteHTTPS>> ELSE <<NoteNotSSH(p.Transport)>>)

\* variant of selectKey: the rule's key is used as written and the score is not kept
selectKey_m(rawURL, p, match, env) ==
    Resolved(Result(rawURL, <<p>>, TRUE, <<match.Rule>>, match.Rule.Key,
                    BuildGITSSHCommand(match.Rule.Key), 0, <<>>))

\* lines 48-57: the key of the matched rule expanded and put into the result
selectKey(rawURL, p, match, env) ==
    LET k == ExpandPath(match.Rule.Key, env)
    IN  IF k.err # ""
        THEN NotResolved(ResolveError("expand key path for rule", k.err, match.Rule.ID))
        ELSE Resolved(Result(rawURL, <<p>>, TRUE, <<match.Rule>>, k.path,
                             BuildGITSSHCommand(k.path), match.Score, <<>>))

\* lines 41-57: an SSH remote
resolveSSH(c, rawURL, p, env) ==
    IF c = <<>> THEN NotResolved(ResolveError("config is required for SSH remote", "", <<>>))
    ELSE LET m == Match(c[1].Rules, <<p>>)
         IN  IF m.err # <<>>
             THEN NotResolved(ResolveError("match", m.err[1], AddRuleHint(<<p>>)))
             ELSE selectKey(rawURL, p, m.res[1], env)

\* lines 28-57: what follows a successful Parse, r being Parse's result
afterParse(c, rawURL, r, env) ==
    IF ~IsSSH(r.remote[1]) THEN Resolved(notSSHResult(rawURL, r.remote[1]))
    ELSE resolveSSH(c, rawURL, r.remote[1], env)

\* the one element of a singleton set
TheOne(S) == CHOOSE x \in S : TRUE

\* variant of FromURL: the config is asked for before the transport is looked at
FromURL_m(c, rawURL, env) ==
    TheOne({ IF r.err # "" THEN NotResolved(ResolveError("parse", r.err, <<>>))
             ELSE IF c = <<>>
             THEN NotResolved(ResolveError("config is required for SSH remote", "", <<>>))
             ELSE afterParse(c, rawURL, r, env) : r \in {Parse(rawURL)} })

\* FromURL: [res, err]; c is <<>> (nil) or <<Config>>; r is Parse's result
FromURL(c, rawURL, env) ==
    TheOne({ IF r.err # "" THEN NotResolved(ResolveError("parse", r.err, <<>>))
             ELSE afterParse(c, rawURL, r, env) : r \in {Parse(rawURL)} })

----------------------------------------------------------------------------
(* Inputs of FromURL: a few remotes, a nil config or a config with a short rule list, *)
(* and the environment ExpandPath reads                                            *)

HomeDir == <<"/", "h">>

WorkDir == <<"/", "w">>

Environments == {Environment(home, cwd) : home \in {<<>>, <<HomeDir>>}, cwd \in {<<>>, <<WorkDir>>}}

UrlRemote(scheme, host) ==
    Shape("url", <<>>, scheme, UserGit, host, <<>>, <<>>, <<<<"o">>, RepoGit>>, <<>>)

ResolveShapes ==
    { ScpRemote(HostHC, <<<<"o">>, RepoGit>>),
      ScpRemote(<<"x", ".", "c">>, <<<<"p">>, RepoGit>>),
      Shape("scp", <<" ">>, <<>>, <<>>, HostHC, Colon, <<>>, <<<<"o">>, <<"r">>>>, <<>>),
      Shape("scp", <<>>, <<>>, <<>>, HostHC, Slash, <<>>, <<<<"o">>, <<"r">>>>, <<>>),
      UrlRemote(TransportSSH, <<"h", ".", "c", ":", "2", "2">>),
      UrlRemote(<<"S", "S", "H">>, HostHC),
      UrlRemote(TransportHTTPS, HostHC),
      UrlRemote(<<"f", "t", "p">>, HostHC),
      UrlRemote(TransportSSH, <<>>) }

KeyRulePool ==
    { Rule("any",   Star, Star, <<"~", "/", "k">>, 0),
      Rule("host",  HostHC, <<"o">>, <<"/", "a", "'", "b", " ", "$", "H", "O", "M", "E", "/", ".", "/", "k">>, 1),
      Rule("nokey", HostHC, Star, <<" ">>, 2),
      Rule("rel",   Star, <<"o">>, <<"k", "/", "$", "{", "H", "O", "M", "E", "}", "$">>, 0),
      Rule("tilde", <<"x", ".", "c">>, Star, <<"~", "k">>, 0),
      Rule("other", <<"y">>, Star, <<"/", "k">>, 5) }

Configs == {<<>>} \cup {<<Config(rs)>> : rs \in SeqsUpTo(KeyRulePool, MaxRules)}

DoFromURL ==
    /\ pc = "start"
    /\ \E r \in {FromURL(cfg, input, environ)} : result' = r.res /\ resultErr' = r.err
    /\ pc' = "resolved"
    /\ UNCHANGED <<cfg, environ, remoteVars, inferVars, commandVars, otherVars>>

InitResolve ==
    /\ pc = "start"
    /\ IdleInfer /\ IdleCommand /\ IdleOther
    /\ shape \in ResolveShapes
    /\ input = InputOf(shape)
    /\ parsed = <<>> /\ parseErr = ""
    /\ rules = <<>> /\ matchRes = <<>> /\ matchErr = <<>>
    /\ cfg \in Configs
    /\ environ \in Environments
    /\ result = <<>> /\ resultErr = <<>>

NextResolve == DoFromURL

SpecResolve == InitResolve /\ [][NextResolve]_vars

----------------------------------------------------------------------------
(* Claims about FromURL, checked under SpecResolve *)

ResolveDone == pc = "resolved"

ResolveFailed(kind) == result = <<>> /\ resultErr # <<>> /\ resultErr[1].kind = kind

\* C18: when the input parses to a transport that is not SSH, FromURL succeeds with
\* SSHSelectionApplies false, no matched rule, an empty key path, an empty override
\* command, score 0 and at least one note, whatever the config (nil, no rules, rules).
C18_NonSSHShortCircuit ==
    ResolveDone =>
        \A r \in {Parse(input)} :
            (r.err = "" /\ ~IsSSH(r.remote[1])) =>
                /\ resultErr = <<>> /\ result # <<>>
                /\ ~result[1].SSHSelectionApplies
                /\ result[1].MatchedRule = <<>>
                /\ result[1].KeyPath = <<>>
                /\ result[1].GITSSHCommand = <<>>
                /\ result[1].MatchScore = 0
                /\ Len(result[1].Notes) >= 1

\* C18 witness: an HTTPS remote resolved with a config whose rules match it.
C18_Witness ==
    /\ ResolveDone /\ result # <<>>
    /\ IsHTTPS(result[1].Parsed[1])
    /\ cfg # <<>> /\ Match(cfg[1].Rules, result[1].Parsed).err = <<>>
    /\ ~result[1].SSHSelectionApplies /\ result[1].Notes = <<NoteHTTPS>>

\* what C19 says of an SSH remote p: the first of the three errors that applies, else
\* a result carrying Match's rule and score and the command built from the expanded key
SSHOutcome(p) ==
    IF cfg = <<>> THEN ResolveFailed("config is required for SSH remote")
    ELSE \A m \in {Match(cfg[1].Rules, <<p>>)} :
        IF m.err # <<>>
        THEN /\ ResolveFailed("match")
             /\ resultErr[1].cause = m.err[1]
             /\ m.err[1].kind = "no SSH key rule matched"
        ELSE \A k \in {ExpandPath(m.res[1].Rule.Key, environ)} :
            IF k.err # ""
            THEN ResolveFailed("expand key path for rule") /\ resultErr[1].cause = k.err
            ELSE /\ resultErr = <<>> /\ result # <<>>
                 /\ result[1].SSHSelectionApplies
                 /\ result[1].MatchedRule = <<m.res[1].Rule>>
                 /\ result[1].MatchScore = m.res[1].Score
                 /\ result[1].GITSSHCommand = BuildGITSSHCommand(k.path)

\* C19: for an SSH remote FromURL fails with the missing-config error, else Match's
\* no-rule error, else the key-expansion error, or returns SSHSelectionApplies true with
\* Match's rule and score and the command built from the rule's expanded key; it never
\* applies without a matched rule; a parse error comes before any config or rule error.
C19_SSHResolution ==
    ResolveDone =>
        \A r \in {Parse(input)} :
            /\ r.err # "" => ResolveFailed("parse") /\ resultErr[1].cause = r.err
            /\ (r.err = "" /\ IsSSH(r.remote[1])) => SSHOutcome(r.remote[1])
            /\ (result # <<>> /\ result[1].SSHSelectionApplies) => result[1].MatchedRule # <<>>

\* C19 witness: an SSH remote resolved to a rule whose key holds a quote and "$HOME",
\* with a lower-scored matching rule listed before it.
C19_Witness ==
    /\ ResolveDone /\ result # <<>>
    /\ result[1].SSHSelectionApplies
    /\ Len(cfg[1].Rules) = 2 /\ result[1].MatchedRule = <<cfg[1].Rules[2]>>
    /\ result[1].KeyPath # result[1].MatchedRule[1].Key
    /\ \E i \in 1..Len(result[1].KeyPath) : result[1].KeyPath[i] = Quote
    /\ result[1].MatchScore > 0

----------------------------------------------------------------------------
(* Inputs of BuildGITSSHCommand: every key path up to MaxKeyLen characters *)

MaxKeyLen == 3

KeyChars == {"k", "/", " ", Quote, "\"", "$", ";", "\\"}

DoBuild ==
    /\ pc = "start"
    /\ sshCommand' = BuildGITSSHCommand(keyPath)
    /\ pc' = "built"
    /\ UNCHANGED <<keyPath, remoteVars, inferVars, resolveVars, otherVars>>

InitCommand ==
    /\ pc = "start"
    /\ IdleRemote /\ IdleInfer /\ IdleResolve /\ IdleOther
    /\ keyPath \in SeqsUpTo(KeyChars, MaxKeyLen)
    /\ sshCommand = <<>>

NextCommand == DoBuild

SpecCommand == InitCommand /\ [][NextCommand]_vars

----------------------------------------------------------------------------
(* Claims about BuildGITSSHCommand, checked under SpecCommand *)

Built == pc = "built"

CommandWords(path) ==
    <<<<"s", "s", "h">>, <<"-", "F">>, <<"/", "d", "e", "v", "/", "n", "u", "l", "l">>, <<"-", "i">>, path, <<"-", "o">>, <<"I", "d", "e", "n", "t", "i", "t", "i", "e", "s", "O", "n", "l", "y", "=", "y", "e", "s">>>>

----------------------------------------------------------------------------
(* package config: Normalize, AddRule, RemoveRule *)

\* newRuleID: "r_" and eight random hex digits, or "rule" when the random source
\* fails; the ids it can return
GeneratedIDs == {"r_00000001", "r_00000002", "rule"}

\* the body of Normalize's loop; gen is what newRuleID returns
NormalizeRule(r, gen) ==
    [r EXCEPT !.Host = normalizePattern(@), !.Owner = normalizePattern(@),
              !.Key = TrimSpace(@), !.ID = IF @ = "" THEN gen ELSE @]

Normalize(rs, gen) == [i \in 1..Len(rs) |-> NormalizeRule(rs[i], gen)]

\* variant of isDuplicate: host and owner are compared as written
isDuplicate_m(existing, r) ==
    /\ existing.Host = r.Host /\ existing.Owner = r.Owner
    /\ existing.Key = r.Key /\ existing.Priority = r.Priority

\* lines 296-299
isDuplicate(existing, r) ==
    /\ EqualFold(existing.Host, r.Host) /\ EqualFold(existing.Owner, r.Owner)
    /\ existing.Key = r.Key /\ existing.Priority = r.Priority

\* lines 286-288: the argument of AddRule as it is compared and stored
normalizedArg(r) ==
    [r EXCEPT !.Host = normalizePattern(@), !.Owner = normalizePattern(@),
              !.Key = TrimSpace(@)]

\* AddRule on the rule list rs: [rules, err]
AddRule(rs, r, force, gen) ==
    IF normalizedArg(r).Key = <<>>
    THEN [rules |-> Normalize(rs, gen), err |-> "key path is required"]
    ELSE IF ~force /\ \E i \in 1..Len(rs) :
                          isDuplicate(NormalizeRule(rs[i], gen), normalizedArg(r))
    THEN [rules |-> Normalize(rs, gen), err |-> "rule already exists"]
    ELSE [rules |-> Append(Normalize(rs, gen), NormalizeRule(r, gen)), err |-> ""]

RemoveSelector(id, host, owner, key, index) ==
    [ID |-> id, Host |-> host, Owner |-> owner, Key |-> key, Index |-> index]

matchesRemoveSelector(r, sel) ==
    IF sel.Host = <<>> /\ sel.Owner = <<>> /\ sel.Key = <<>> THEN FALSE
    ELSE IF sel.Host # <<>> /\ ~EqualFold(r.Host, sel.Host) THEN FALSE
    ELSE IF sel.Owner # <<>> /\ ~EqualFold(r.Owner, sel.Owner) THEN FALSE
    ELSE IF sel.Key # <<>> /\ r.Key # sel.Key THEN FALSE
    ELSE TRUE

\* the two tests of RemoveRule's loop body, lines 318-325
selects(r, sel) == (sel.ID # "" /\ r.ID = sel.ID) \/ matchesRemoveSelector(r, sel)

\* append(c.Rules[:i], c.Rules[i+1:]...), i counted from 1
removeAt(rs, i) == SubSeq(rs, 1, i - 1) \o SubSeq(rs, i + 1, Len(rs))

\* Rule{}
ZeroRule == Rule("", <<>>, <<>>, <<>>, 0)

Removed(rs, i) == [rules |-> removeAt(rs, i), removed |-> rs[i], found |-> TRUE]

\* RemoveRule on the normalized rule list n
removeFrom(n, sel) ==
    IF sel.Index > 0 /\ sel.Index <= Len(n) THEN Removed(n, sel.Index)
    ELSE IF \E i \in 1..Len(n) : selects(n[i], sel)
    THEN Removed(n, SetMin({i \in 1..Len(n) : selects(n[i], sel)}))
    ELSE [rules |-> n, removed |-> ZeroRule, found |-> FALSE]

\* RemoveRule: [rules, removed, found]
RemoveRule(rs, sel, gen) == removeFrom(Normalize(rs, gen), sel)

----------------------------------------------------------------------------
(* Calls of AddRule and RemoveRule on a config that starts empty *)

MaxConfigRules == 3

AddPool ==
    { Rule("",  HostHC, <<"o">>, <<"k">>, 0),
      Rule("a", <<"H", ".", "C">>, <<"O">>, <<" ", "k", " ">>, 0),
      Rule("a", HostHC, <<>>, <<"q">>, 0),
      Rule("b", <<" ">>, <<>>, <<"k">>, 1),
      Rule("",  HostHC, <<"o">>, <<" ">>, 0),
      Rule("b", HostHC, <<"o">>, <<"k">>, 1) }

NoSelector == RemoveSelector("", <<>>, <<>>, <<>>, 0)

SelectorPool ==
    { NoSelector,
      RemoveSelector("", <<>>, <<>>, <<>>, 1),
      RemoveSelector("a", <<>>, <<>>, <<>>, MaxConfigRules + 2),
      RemoveSelector("b", <<>>, <<>>, <<>>, -1),
      RemoveSelector("b", HostHC, <<>>, <<>>, 0),
      RemoveSelector("zz", <<>>, <<>>, <<>>, 0),
      RemoveSelector("", <<"H", ".", "C">>, <<"o">>, <<>>, 0),
      RemoveSelector("", <<>>, <<>>, <<"k">>, 0) }

Call(op, r, force, sel, before, err, removed, found) ==
    [op |-> op, rule |-> r, force |-> force, sel |-> sel, before |-> before,
     err |-> err, removed |-> removed, found |-> found]

DoAddRule ==
    /\ pc = "config"
    /\ Len(confRules) < MaxConfigRules
    /\ \E r \in AddPool, force \in BOOLEAN, gen \in GeneratedIDs :
        \E out \in {AddRule(confRules, r, force, gen)} :
            /\ confRules' = out.rules
            /\ lastCall' = <<Call("AddRule", r, force, NoSelector, confRules, out.err,
                                  ZeroRule, FALSE)>>
    /\ UNCHANGED <<pc, coreVars, pathVars, ensureVars, menuVars, execVars>>

DoRemoveRule ==
    /\ pc = "config"
    /\ \E sel \in SelectorPool, gen \in GeneratedIDs :
        \E out \in {RemoveRule(confRules, sel, gen)} :
            /\ confRules' = out.rules
            /\ lastCall' = <<Call("RemoveRule", ZeroRule, FALSE, sel, confRules, "",
                                  out.removed, out.found)>>
    /\ UNCHANGED <<pc, coreVars, pathVars, ensureVars, menuVars, execVars>>

IdleCore == IdleRemote /\ IdleInfer /\ IdleResolve /\ IdleCommand

InitConfig ==
    /\ pc = "config"
    /\ IdleCore /\ IdlePath /\ IdleEnsure /\ IdleMenu /\ IdleExec
    /\ confRules = <<>>
    /\ lastCall = <<>>

NextConfig == DoAddRule \/ DoRemoveRule

SpecConfig == InitConfig /\ [][NextConfig]_vars

----------------------------------------------------------------------------
(* Claims about AddRule and RemoveRule, checked under SpecConfig *)

Called(op) == lastCall # <<>> /\ lastCall[1].op = op

\* C21: every rule of the config has a non-empty id and no two rules share an id.
C21_UniqueIDs ==
    /\ \A i \in 1..Len(confRules) : confRules[i].ID # ""
    /\ \A i, j \in 1..Len(confRules) : i # j => confRules[i].ID # confRules[j].ID

\* no two rules agree on host and owner (case-insensitively), key and priority
NoDuplicates(rs) ==
    \A i, j \in 1..Len(rs) :
        i # j => ~(/\ EqualFold(rs[i].Host, rs[j].Host) /\ EqualFold(rs[i].Owner, rs[j].Owner)
                  /\ rs[i].Key = rs[j].Key /\ rs[i].Priority = rs[j].Priority)

\* the rule list before the latest call holds a rule equal to the call's rule in
\* normalized host and owner (case-insensitively), key and priority
AddsDuplicate(c) ==
    \E i \in 1..Len(c.before) :
        /\ EqualFold(c.before[i].Host, normalizePattern(c.rule.Host))
        /\ EqualFold(c.before[i].Owner, normalizePattern(c.rule.Owner))
        /\ c.before[i].Key = TrimSpace(c.rule.Key)
        /\ c.before[i].Priority = c.rule.Priority

\* C22: AddRule without force, given a duplicate of an existing rule, returns an error
\* and appends nothing; with force the duplicate is appended; a step that is not a
\* forced AddRule keeps the rule list free of duplicates, so a config built from the
\* empty one by unforced AddRule and RemoveRule calls never holds any.
C22_DuplicateRejected ==
    /\ [](Called("AddRule") =>
            \A c \in {lastCall[1]} :
                /\ (~c.force /\ AddsDuplicate(c)) => (c.err # "" /\ confRules = c.before)
                /\ (c.force /\ AddsDuplicate(c) /\ TrimSpace(c.rule.Key) # <<>>) =>
                       /\ c.err = "" /\ Len(confRules) = Len(c.before) + 1
                       /\ SubSeq(confRules, 1, Len(c.before)) = c.before
                       /\ ~NoDuplicates(confRules))
    /\ [][(NoDuplicates(confRules) /\ ~(lastCall'[1].op = "AddRule" /\ lastCall'[1].force))
            => NoDuplicates(confRules')]_vars

\* C22 witness: an unforced AddRule of a rule that differs from an existing one only in
\* letter case and surrounding blanks was refused.
C22_Witness ==
    /\ Called("AddRule") /\ ~lastCall[1].force /\ AddsDuplicate(lastCall[1])
    /\ lastCall[1].err = "rule already exists"
    /\ \A i \in 1..Len(confRules) : confRules[i].Host # lastCall[1].rule.Host
    /\ confRules = lastCall[1].before

\* rs without the element at one position k that holds r
IsWithoutOne(after, before, r) ==
    \E k \in 1..Len(before) : before[k] = r /\ after = removeAt(before, k)

\* C30: RemoveRule removes at most one rule, returns it and keeps the others in order;
\* when the selector has a non-empty ID, no in-range index, and some rule has that ID,
\* the removed rule has that ID; when nothing is selected the list is unchanged and
\* found is false.
C30_RemoveByID ==
    Called("RemoveRule") =>
        \A c \in {lastCall[1]} :
            /\ IF c.found THEN IsWithoutOne(confRules, c.before, c.removed)
               ELSE confRules = c.before
            /\ (/\ c.sel.ID # ""
                /\ ~(c.sel.Index > 0 /\ c.sel.Index <= Len(c.before))
                /\ \E i \in 1..Len(c.before) : c.before[i].ID = c.sel.ID)
               => (c.found /\ c.removed.ID = c.sel.ID)

----------------------------------------------------------------------------
(* package config: ResolvePath, AutoPath, FindNearestConfig, FindRepoRoot *)

RepoConfigRelativePath == <<".", "m", "g", "i", "t", "/", "c", "o", "n", "f", "i", "g", ".", "j", "s", "o", "n">>

GitMarker == <<".", "g", "i", "t">>

\* filepath.Dir: the path up to its last '/', cleaned
filepathDir(p) ==
    IF LastIndex(p, Slash) = 0 THEN <<".">> ELSE PathClean(SubSeq(p, 1, LastIndex(p, Slash)))

\* os.Stat on the file system fs: the kind of the entry at path, "none" when absent
Stat(fs, path) ==
    IF \E e \in fs : e.path = path THEN (CHOOSE e \in fs : e.path = path).kind ELSE "none"

\* the loop of FindNearestConfig from directory dir
RECURSIVE nearestConfigFrom(_, _)
nearestConfigFrom(fs, dir) ==
    IF Stat(fs, filepathJoin(dir, RepoConfigRelativePath)) \notin {"none", "dir"}
    THEN [path |-> filepathJoin(dir, RepoConfigRelativePath), ok |-> TRUE, err |-> ""]
    ELSE IF filepathDir(dir) = dir THEN [path |-> <<>>, ok |-> FALSE, err |-> ""]
    ELSE nearestConfigFrom(fs, filepathDir(dir))

FindNearestConfig(fs, start, env) ==
    IF ExpandPath(start, env).err # ""
    THEN [path |-> <<>>, ok |-> FALSE, err |-> ExpandPath(start, env).err]
    ELSE nearestConfigFrom(fs, ExpandPath(start, env).path)

\* the loop of FindRepoRoot from directory dir
RECURSIVE repoRootFrom(_, _)
repoRootFrom(fs, dir) ==
    IF Stat(fs, filepathJoin(dir, GitMarker)) # "none"
    THEN [path |-> dir, ok |-> TRUE, err |-> ""]
    ELSE IF filepathDir(dir) = dir THEN [path |-> <<>>, ok |-> FALSE, err |-> ""]
    ELSE repoRootFrom(fs, filepathDir(dir))

FindRepoRoot(fs, start, env) ==
    IF ExpandPath(start, env).err # ""
    THEN [path |-> <<>>, ok |-> FALSE, err |-> ExpandPath(start, env).err]
    ELSE repoRootFrom(fs, ExpandPath(start, env).path)

\* lines 75-80 of AutoPath: no config found from wd
repoRootOrHere(fs, wd, root) ==
    IF root.err = "" /\ root.ok
    THEN [path |-> filepathJoin(root.path, RepoConfigRelativePath), err |-> ""]
    ELSE IF root.err # "" THEN [path |-> <<>>, err |-> root.err]
    ELSE [path |-> filepathJoin(wd, RepoConfigRelativePath), err |-> ""]

\* lines 70-80 of AutoPath, wd being the working directory
autoPathFrom(fs, wd, env, nearest) ==
    IF nearest.err = "" /\ nearest.ok THEN [path |-> nearest.path, err |-> ""]
    ELSE IF nearest.err # "" THEN [path |-> <<>>, err |-> nearest.err]
    ELSE repoRootOrHere(fs, wd, FindRepoRoot(fs, wd, env))

\* AutoPath: [path, err]; os.Getwd gives env.cwd
AutoPath(fs, env) ==
    IF env.cwd = <<>> THEN [path |-> <<>>, err |-> "determine current working directory"]
    ELSE autoPathFrom(fs, env.cwd[1], env, FindNearestConfig(fs, env.cwd[1], env))

ResolvePath(c, fs, env) ==
    IF TrimSpace(c) = <<>> THEN AutoPath(fs, env) ELSE ExpandPath(c, env)

----------------------------------------------------------------------------
(* Inputs of ResolvePath: a working directory up to MaxDepth names deep and a file *)
(* system holding, in each of its ancestors, a config entry and a .git entry or not *)

MaxDepth == 2

DirNames == {<<"w">>, <<"$", "x">>}

\* the absolute path of the directory with the given names
DirOf(names) == Slash \o Join(names, Slash)

\* the path of the entry rel in directory dir
EntryIn(dir, rel) == IF dir = Slash THEN Slash \o rel ELSE dir \o Slash \o rel

\* the directories from the one with the given names up to the root
AncestorsOf(names) == [j \in 1..(Len(names) + 1) |-> DirOf(SubSeq(names, 1, Len(names) + 1 - j))]

\* the file system in which directory d holds the config entry conf[d] and the .git
\* entry git[d]
FileSystem(dirs, conf, git) ==
    {[path |-> EntryIn(d, RepoConfigRelativePath), kind |-> conf[d]] :
        d \in {d \in dirs : conf[d] # "none"}}
    \cup {[path |-> EntryIn(d, GitMarker), kind |-> git[d]] : d \in {d \in dirs : git[d] # "none"}}

Range(q) == {q[i] : i \in 1..Len(q)}

FileSystems(dirs) ==
    {FileSystem(dirs, conf, git) :
        conf \in [dirs -> {"none", "file", "dir"}], git \in [dirs -> {"none", "dir"}]}

CustomPaths == {<<>>, <<" ">>, <<"/", "c", "/", "x", ".", "j", "s", "o", "n">>, <<"~", "/", "x", ".", "j", "s", "o", "n">>}

DoResolvePath ==
    /\ pc = "start"
    /\ \E r \in {ResolvePath(custom, fsys, environ)} : confPath' = r.path /\ confPathErr' = r.err
    /\ pc' = "path"
    /\ UNCHANGED <<fsys, custom, environ, cfg, result, resultErr>>
    /\ UNCHANGED <<remoteVars, inferVars, commandVars, configVars, ensureVars, menuVars, execVars>>

InitPath ==
    /\ pc = "start"
    /\ IdleRemote /\ IdleInfer /\ IdleCommand /\ IdleConfig /\ IdleEnsure /\ IdleMenu /\ IdleExec
    /\ cfg = <<>> /\ result = <<>> /\ resultErr = <<>>
    /\ custom \in CustomPaths
    /\ \/ environ = Environment(<<HomeDir>>, <<>>) /\ fsys = {}
       \/ \E names \in SeqsUpTo(DirNames, MaxDepth) :
            /\ environ = Environment(<<HomeDir>>, <<DirOf(names)>>)
            /\ fsys \in FileSystems(Range(AncestorsOf(names)))
    /\ confPath = <<>> /\ confPathErr = ""

NextPath == DoResolvePath

SpecPath == InitPath /\ [][NextPath]_vars

----------------------------------------------------------------------------
(* Claims about ResolvePath, checked under SpecPath *)

PathDone == pc = "path"

\* the names of the working directory
WorkNames == DropEmpty(Split(environ.cwd[1], Slash))

\* the first directory of the list dirs that holds an entry rel of one of the kinds
FirstHolding(dirs, rel, kinds) ==
    dirs[SetMin({j \in 1..Len(dirs) : Stat(fsys, EntryIn(dirs[j], rel)) \in kinds})]

Holds(dirs, rel, kinds) == \E j \in 1..Len(dirs) : Stat(fsys, EntryIn(dirs[j], rel)) \in kinds

\* C24: with no custom path ResolvePath returns the .mgit/config.json of the nearest
\* directory, from the working directory up to the root, that holds such a file; else
\* that of the nearest directory holding a .git entry; else that of the working directory.
C24_NearestConfig ==
    (PathDone /\ TrimSpace(custom) = <<>> /\ environ.cwd # <<>>) =>
        \A up \in {AncestorsOf(WorkNames)} :
            /\ confPathErr = ""
            /\ confPath =
                 EntryIn(IF Holds(up, RepoConfigRelativePath, {"file"})
                         THEN FirstHolding(up, RepoConfigRelativePath, {"file"})
                         ELSE IF Holds(up, GitMarker, {"file", "dir"})
                         THEN FirstHolding(up, GitMarker, {"file", "dir"})
                         ELSE environ.cwd[1],
                         RepoConfigRelativePath)

----------------------------------------------------------------------------
(* package config: EnsureGitignoreExcludesMgit; a file is an entry *)
(* [path, kind, data, writable] of the file system                 *)

GitignoreName == <<".", "g", "i", "t", "i", "g", "n", "o", "r", "e">>

MgitLine == <<".", "m", "g", "i", "t">>

Newline == <<"\n">>

\* filepath.Base: the last element of the path
filepathBase(p) ==
    IF p = <<>> THEN <<".">>
    ELSE IF DropEmpty(Split(p, Slash)) = <<>> THEN Slash
    ELSE Last(DropEmpty(Split(p, Slash)))

EntryAt(fs, path) == CHOOSE e \in fs : e.path = path

\* variant of hasMgitLine: only the line ".mgit" counts
hasMgitLine_m(data) ==
    \E i \in 1..Len(Split(data, Newline)) : TrimSpace(Split(data, Newline)[i]) = MgitLine

\* lines 229-234: some line is ".mgit" or ".mgit/" after trimming
hasMgitLine(data) ==
    \E i \in 1..Len(Split(data, Newline)) :
        TrimSpace(Split(data, Newline)[i]) \in {MgitLine, MgitLine \o Slash}

\* lines 235-240: the content written back
withMgitLine(data) ==
    data \o (IF Len(data) > 0 /\ data[Len(data)] # "\n" THEN Newline ELSE <<>>)
         \o MgitLine \o Newline

Ensured(c, err, fs) == [changed |-> c, err |-> err, fs |-> fs]

\* lines 229-244 for the file entry e
ensureLine(fs, e) ==
    IF hasMgitLine(e.data) THEN Ensured(FALSE, "", fs)
    ELSE IF ~e.writable THEN Ensured(FALSE, "write", fs)
    ELSE Ensured(TRUE, "", (fs \ {e}) \cup {[e EXCEPT !.data = withMgitLine(e.data)]})

\* lines 215-244 for the path of .gitignore
ensureAt(fs, gitignorePath) ==
    IF Stat(fs, gitignorePath) = "none" THEN Ensured(FALSE, "", fs)
    ELSE IF Stat(fs, gitignorePath) = "dir" THEN Ensured(FALSE, "", fs)
    ELSE ensureLine(fs, EntryAt(fs, gitignorePath))

\* lines 208-215 for the resolved config path
ensureFor(fs, resolved) ==
    IF filepathBase(resolved) # <<"c", "o", "n", "f", "i", "g", ".", "j", "s", "o", "n">> THEN Ensured(FALSE, "", fs)
    ELSE IF filepathBase(filepathDir(resolved)) # MgitLine THEN Ensured(FALSE, "", fs)
    ELSE ensureAt(fs, filepathJoin(filepathDir(filepathDir(resolved)), GitignoreName))

\* EnsureGitignoreExcludesMgit: [changed, err, fs], r being ResolvePath's result
EnsureGitignoreExcludesMgit(fs, r) ==
    IF r.err # "" THEN Ensured(FALSE, r.err, fs) ELSE ensureFor(fs, r.path)

----------------------------------------------------------------------------
(* Inputs of EnsureGitignoreExcludesMgit: a config path and a .gitignore of up to *)
(* MaxLines lines in /w, called twice                                            *)

MaxLines == 2

LinePool == {MgitLine, MgitLine \o Slash, <<" ">> \o MgitLine \o <<"\r">>, <<"x">>, <<>>}

Contents ==
    {Join(ls, Newline) \o nl : ls \in SeqsUpTo(LinePool, MaxLines), nl \in {<<>>, Newline}}

ConfigPaths ==
    {<<>>, <<"/", "w", "/", ".", "m", "g", "i", "t", "/", "c", "o", "n", "f", "i", "g", ".", "j", "s", "o", "n">>, <<"/", "w", "/", ".", "m", "g", "i", "t", "/", "o", "t", "h", "e", "r", ".", "j", "s", "o", "n">>, <<"/", "w", "/", "x", "/", "c", "o", "n", "f", "i", "g", ".", "j", "s", "o", "n">>,
     <<"/", ".", "m", "g", "i", "t", "/", "c", "o", "n", "f", "i", "g", ".", "j", "s", "o", "n">>, <<"~", "/", "c", "o", "n", "f", "i", "g", ".", "j", "s", "o", "n">>}

File(path, data, writable) == [path |-> path, kind |-> "file", data |-> data, writable |-> writable]

Directory(path) == [path |-> path, kind |-> "dir", data |-> <<>>, writable |-> TRUE]

GitignoreStates ==
    {{}, {Directory(EntryIn(WorkDir, GitignoreName))}}
    \cup {{File(EntryIn(WorkDir, GitignoreName), d, w)} : d \in Contents, w \in BOOLEAN}

DoEnsure ==
    /\ pc \in {"start", "once"}
    /\ \E r \in {ResolvePath(custom, fsys, environ)} :
        /\ confPath' = r.path /\ confPathErr' = r.err
        /\ \E out \in {EnsureGitignoreExcludesMgit(fsys, r)} :
            changed' = out.changed /\ ensureErr' = out.err /\ fsys' = out.fs
    /\ fsBefore' = fsys
    /\ pc' = IF pc = "start" THEN "once" ELSE "twice"
    /\ UNCHANGED <<custom, environ, cfg, result, resultErr>>
    /\ UNCHANGED <<remoteVars, inferVars, commandVars, configVars, menuVars, execVars>>

InitEnsure ==
    /\ pc = "start"
    /\ IdleRemote /\ IdleInfer /\ IdleCommand /\ IdleConfig /\ IdleEnsure /\ IdleMenu /\ IdleExec
    /\ cfg = <<>> /\ result = <<>> /\ resultErr = <<>>
    /\ custom \in ConfigPaths
    /\ environ \in {Environment(home, <<WorkDir>>) : home \in {<<>>, <<HomeDir>>}}
    /\ fsys \in GitignoreStates
    /\ confPath = <<>> /\ confPathErr = ""

NextEnsure == DoEnsure

SpecEnsure == InitEnsure /\ [][NextEnsure]_vars

----------------------------------------------------------------------------
(* Claims about EnsureGitignoreExcludesMgit, checked under SpecEnsure *)

EnsureCalled == pc \in {"once", "twice"}

MgitConfigSuffix == Slash \o RepoConfigRelativePath

\* the .gitignore next to a config path of the form <dir>/.mgit/config.json
GitignoreOf(path) ==
    EntryIn(IF Len(path) = Len(MgitConfigSuffix) THEN Slash
            ELSE SubSeq(path, 1, Len(path) - Len(MgitConfigSuffix)), GitignoreName)

LinesOf(data) == Split(data, Newline)

\* the latest call could add the line: the resolved config path is
\* <dir>/.mgit/config.json and <dir>/.gitignore was a file without the line
Addable ==
    /\ confPathErr = "" /\ HasSuffix(confPath, MgitConfigSuffix)
    /\ Stat(fsBefore, GitignoreOf(confPath)) = "file"
    /\ \A i \in 1..Len(LinesOf(EntryAt(fsBefore, GitignoreOf(confPath)).data)) :
           TrimSpace(LinesOf(EntryAt(fsBefore, GitignoreOf(confPath)).data)[i])
               \notin {MgitLine, MgitLine \o Slash}

\* the file system differs from the one before only in the content of the file at
\* path, which has the previous content as a prefix and ends in one new line ".mgit"
LineAppended(path) ==
    /\ {e.path : e \in fsys} = {e.path : e \in fsBefore}
    /\ \A e \in fsys : e.path # path => e \in fsBefore
    /\ \A old \in {EntryAt(fsBefore, path).data}, new \in {EntryAt(fsys, path).data} :
        /\ HasPrefix(new, old)
        /\ LinesOf(new) = (IF old = <<>> \/ Last(old) = "\n"
                           THEN Front(LinesOf(old)) ELSE LinesOf(old)) \o <<MgitLine, <<>>>>

\* C25: the line ".mgit" is appended, and changed = true reported, only when the config
\* path is <dir>/.mgit/config.json and <dir>/.gitignore is a file without a line
\* ".mgit" or ".mgit/"; otherwise changed = false and the file system is untouched;
\* a second call reports changed = false and changes nothing.
C25_NoDuplicateLine ==
    EnsureCalled =>
        /\ changed => (Addable /\ LineAppended(GitignoreOf(confPath)))
        /\ ~changed => fsys = fsBefore
        /\ (Addable /\ ensureErr = "") => changed
        /\ pc = "twice" => ~changed

\* C25 witness: the second call after a first one that added the line to a .gitignore
\* whose last line had no newline.
C25_Witness ==
    /\ pc = "twice" /\ ~changed /\ fsys = fsBefore
    /\ \E e \in fsys :
        /\ e.path = EntryIn(WorkDir, GitignoreName)
        /\ Len(LinesOf(e.data)) = MaxLines + 2
        /\ LinesOf(e.data)[MaxLines + 1] = MgitLine
        /\ \A i \in 1..MaxLines : LinesOf(e.data)[i] = <<"x">>

----------------------------------------------------------------------------
(* package cli: the option menus. A byte is a one-character string, or the *)
(* name of a control byte: ETX (3), BS (8), LF (10), CR (13), ESC (27),    *)
(* DEL (127), NUL (0, what a failed ReadByte yields)                       *)

menuResult(kind, index) == [Kind |-> kind, Index |-> index]

RECURSIVE DigitsValue(_)
DigitsValue(s) ==
    IF s = <<>> THEN 0 ELSE 10 * DigitsValue(Front(s)) + (CodeOf[Last(s)] - 48)

RECURSIVE stripZeros(_)
stripZeros(s) == IF Len(s) > 1 /\ s[1] = "0" THEN stripZeros(Tail(s)) ELSE s

MaxInt64Digits == <<"9", "2", "2", "3", "3", "7", "2", "0", "3", "6", "8", "5", "4", "7", "7", "5", "8", "0", "7">>

RECURSIVE digitsAbove(_, _)
\* the digit string a denotes a larger number than b, the two of one length
digitsAbove(a, b) ==
    /\ a # <<>>
    /\ \/ CodeOf[a[1]] > CodeOf[b[1]]
       \/ a[1] = b[1] /\ digitsAbove(Tail(a), Tail(b))

atoiDigits(s) == IF s # <<>> /\ s[1] \in {"+", "-"} THEN Tail(s) ELSE s

\* the magnitude is outside int (64 bits); -2^63 is inside
atoiOutOfRange(s, digits) ==
    \/ Len(digits) > Len(MaxInt64Digits)
    \/ /\ Len(digits) = Len(MaxInt64Digits)
       /\ digitsAbove(digits, MaxInt64Digits)
       /\ ~(s[1] = "-" /\ digits = Front(MaxInt64Digits) \o <<"8">>)

\* strconv.Atoi: [n, err], err being "" (nil), "syntax" or "range"
Atoi(s) ==
    IF atoiDigits(s) = <<>> \/ \E i \in 1..Len(atoiDigits(s)) : ~IsDigit(atoiDigits(s)[i])
    THEN [n |-> 0, err |-> "syntax"]
    ELSE IF atoiOutOfRange(s, stripZeros(atoiDigits(s))) THEN [n |-> 0, err |-> "range"]
    ELSE [n |-> (IF s[1] = "-" THEN -1 ELSE 1) * DigitsValue(atoiDigits(s)), err |-> ""]

\* part_003 lines 63-70 and 169-175: the result for the number n, <<>> when there is none
byNumber(n, count) ==
    IF n >= 1 /\ n <= count THEN <<menuResult("index", n - 1)>>
    ELSE IF n = count + 1 THEN <<menuResult("custom", 0)>>
    ELSE IF n = count + 2 THEN <<menuResult("cancel", 0)>>
    ELSE <<>>

\* lines 61-71: the result for the typed digits
byTyped(buf, count) ==
    IF Atoi(buf).err = "" THEN byNumber(Atoi(buf).n, count) ELSE <<>>

\* lines 76-82: the result for the highlighted position
byHighlight(sel, count) ==
    IF sel < count THEN menuResult("index", sel)
    ELSE IF sel = count THEN menuResult("custom", 0)
    ELSE menuResult("cancel", 0)

\* variant of moveUp: no wrap at the top
moveUp_m(sel, count) == IF sel > 0 THEN sel - 1 ELSE 0

\* lines 93-97 and 123-127
moveUp(sel, count) == IF sel > 0 THEN sel - 1 ELSE count + 1

\* lines 101-105 and 131-135
moveDown(sel, count) == IF sel < count + 1 THEN sel + 1 ELSE 0

----------------------------------------------------------------------------
(* pickOptionInteractive on a terminal in raw mode: one action for the setup, *)
(* one for an iteration of the key loop                                      *)

MaxItems == 3

MaxDigits == 2

ItemNames == <<"a", "b", "c", "d", "e", "f", "g", "h">>

Digits == {"0", "1", "2", "3", "4", "5", "6", "7", "8", "9"}

Bytes ==
    Digits \cup {"ETX", "BS", "LF", "CR", "ESC", "DEL", "[", "A", "B", "k", "K", "j", "J",
                 "c", "C", "q", "Q", "x"}

\* what r.ReadByte yields with its error ignored (lines 84, 90)
BytesOrNone == Bytes \cup {"NUL"}

Returns(res, err) ==
    /\ menu' = res /\ menuErr' = err /\ pc' = "done"
    /\ UNCHANGED <<selected, numberBuf>>

Continues(sel, buf) ==
    /\ selected' = sel /\ numberBuf' = buf /\ pc' = "keys"
    /\ UNCHANGED <<menu, menuErr>>

\* lines 19-49
DoPickOption ==
    /\ pc = "start"
    /\ IF Len(items) = 0 THEN Returns(<<menuResult("", 0)>>, "no items to select")
       ELSE Continues(0, <<>>)
    /\ UNCHANGED <<items, keys, stdin, answer>>
    /\ UNCHANGED <<coreVars, configVars, pathVars, ensureVars, execVars>>

\* lines 59-82
onEnter ==
    IF TrimSpace(numberBuf) # <<>>
    THEN IF byTyped(numberBuf, Len(items)) # <<>>
         THEN Returns(byTyped(numberBuf, Len(items)), "")
         ELSE Continues(selected, <<>>)
    ELSE Returns(<<byHighlight(selected, Len(items))>>, "")

\* lines 83-111
onEscape(b2) ==
    IF b2 # "[" THEN keys' = <<"ESC", b2>> /\ Continues(selected, <<>>)
    ELSE \E b3 \in BytesOrNone :
         /\ keys' = <<"ESC", b2, b3>>
         /\ IF b3 = "A" THEN Continues(moveUp(selected, Len(items)), <<>>)
            ELSE IF b3 = "B" THEN Continues(moveDown(selected, Len(items)), <<>>)
            ELSE Continues(selected, <<>>)

\* lines 112-147
onOther(b) ==
    IF b \in Digits \ {"0"} THEN Continues(selected, Append(numberBuf, b))
    ELSE IF b = "0"
    THEN Continues(selected, IF numberBuf # <<>> THEN Append(numberBuf, b) ELSE numberBuf)
    ELSE IF b \in {"k", "K"} THEN Continues(moveUp(selected, Len(items)), <<>>)
    ELSE IF b \in {"j", "J"} THEN Continues(moveDown(selected, Len(items)), <<>>)
    ELSE IF b \in {"c", "C"} THEN Returns(<<menuResult("custom", 0)>>, "")
    ELSE IF b \in {"q", "Q"} THEN Returns(<<menuResult("cancel", 0)>>, "")
    ELSE IF b \in {"DEL", "BS"}
    THEN Continues(selected, IF numberBuf # <<>> THEN Front(numberBuf) ELSE numberBuf)
    ELSE Continues(selected, numberBuf)

\* lines 51-149: one iteration, the read failing or yielding the byte b
DoKey ==
    /\ pc = "keys"
    /\ \/ keys' = <<>> /\ Returns(<<menuResult("", 0)>>, "EOF")
       \/ \E b \in Bytes :
            /\ b \in Digits /\ numberBuf # <<>> => Len(numberBuf) < MaxDigits
            /\ IF b = "ETX" THEN keys' = <<b>> /\ Returns(<<menuResult("", 0)>>, "cancelled")
               ELSE IF b \in {"CR", "LF"} THEN keys' = <<b>> /\ onEnter
               ELSE IF b = "ESC" THEN \E b2 \in BytesOrNone : onEscape(b2)
               ELSE keys' = <<b>> /\ onOther(b)
    /\ UNCHANGED <<items, stdin, answer>>
    /\ UNCHANGED <<coreVars, configVars, pathVars, ensureVars, execVars>>

InitPicker ==
    /\ pc = "start"
    /\ IdleCore /\ IdleConfig /\ IdlePath /\ IdleEnsure /\ IdleExec
    /\ \E count \in 0..MaxItems : items = [i \in 1..count |-> <<ItemNames[i]>>]
    /\ selected = 0 /\ numberBuf = <<>> /\ menu = <<>> /\ menuErr = "" /\ keys = <<>>
    /\ stdin = <<>> /\ answer = <<>>

NextPicker == DoPickOption \/ DoKey

SpecPicker == InitPicker /\ [][NextPicker]_vars

----------------------------------------------------------------------------
(* Claims about pickOptionInteractive, checked under SpecPicker *)

UpKeys == {<<"ESC", "[", "A">>, <<"k">>}

DownKeys == {<<"ESC", "[", "B">>, <<"j">>}

EnterKeys == {<<"CR">>, <<"LF">>}

\* the number the typed digits denote
TypedNumber(buf) == DigitsValue(buf)

\* C27: with at least one item the highlighted position stays in 0..n+1, up from 0
\* wraps to n+1 and down from n+1 wraps to 0, a result of kind index has its Index in
\* 0..n-1, and Enter on a typed number outside 1..n+2 returns nothing and clears
\* the typed digits.
C27_PickerBounds ==
    /\ [](Len(items) >= 1 =>
            /\ selected \in 0..(Len(items) + 1)
            /\ (menu # <<>> /\ menu[1].Kind = "index") => menu[1].Index \in 0..(Len(items) - 1))
    /\ [][pc = "keys" =>
            /\ (keys' \in UpKeys /\ selected = 0) => selected' = Len(items) + 1
            /\ (keys' \in DownKeys /\ selected = Len(items) + 1) => selected' = 0
            /\ (keys' \in EnterKeys /\ numberBuf # <<>>
                    /\ TypedNumber(numberBuf) \notin 1..(Len(items) + 2))
                 => (menu' = <<>> /\ numberBuf' = <<>> /\ pc' = "keys")]_vars

\* C27 witness: the last item chosen by its typed number while the highlight, wrapped
\* upwards from 0, is on Cancel.
C27_Witness ==
    /\ pc = "done" /\ Len(items) = MaxItems /\ keys \in EnterKeys
    /\ selected = Len(items) + 1 /\ TypedNumber(numberBuf) = Len(items)
    /\ menu = <<menuResult("index", Len(items) - 1)>> /\ menuErr = ""

----------------------------------------------------------------------------
(* pickOptionLinePrompt: one action for the call of promptLine, one for the rest *)
(* of the loop body                                                              *)

\* strings.TrimRight(s, "\r\n")
RECURSIVE trimLineEnd(_)
trimLineEnd(s) ==
    IF s # <<>> /\ Last(s) \in {"\r", "\n"} THEN trimLineEnd(Front(s)) ELSE s

Stream(data, end) == [data |-> data, end |-> end]

Answer(line, err) == [line |-> line, err |-> err]

\* part_004 lines 750-755: a new bufio.Reader reads up to the first newline and
\* whatever else the reads delivered, k bytes in all; what it buffered beyond the
\* line is lost with it. Without a newline it reads on to the end of the input.
readLine(in, k) ==
    IF Index(in.data, Newline) > 0
    THEN [answer |-> Answer(trimLineEnd(SubSeq(in.data, 1, Index(in.data, Newline))), ""),
          stdin |-> Stream(SubSeq(in.data, k + 1, Len(in.data)), in.end)]
    ELSE IF in.end = "EOF"
    THEN [answer |-> Answer(trimLineEnd(in.data), ""), stdin |-> Stream(<<>>, in.end)]
    ELSE [answer |-> Answer(<<>>, in.end), stdin |-> Stream(<<>>, in.end)]

\* the numbers of bytes a reader can take off the input for one line
ReadAheads(in) ==
    IF Index(in.data, Newline) > 0 THEN Index(in.data, Newline)..Len(in.data)
    ELSE {Len(in.data)}

\* part_004 lines 748-756, called at part_003 line 160
DoPromptLine ==
    /\ pc = "prompt"
    /\ \E k \in ReadAheads(stdin) :
        /\ answer' = <<readLine(stdin, k).answer>>
        /\ stdin' = readLine(stdin, k).stdin
    /\ pc' = "answer"
    /\ UNCHANGED <<items, selected, numberBuf, menu, menuErr, keys>>
    /\ UNCHANGED <<coreVars, configVars, pathVars, ensureVars, execVars>>

\* part_003 lines 164-178: the result for the line, <<>> for "Invalid selection"
chosen(line, count) ==
    IF Atoi(TrimSpace(line)).err # "" THEN <<>>
    ELSE byNumber(Atoi(TrimSpace(line)).n, count)

\* part_003 lines 161-178
DoChoose ==
    /\ pc = "answer"
    /\ IF answer[1].err # ""
       THEN menu' = <<menuResult("", 0)>> /\ menuErr' = answer[1].err /\ pc' = "done"
       ELSE IF chosen(answer[1].line, Len(items)) # <<>>
       THEN menu' = chosen(answer[1].line, Len(items)) /\ menuErr' = "" /\ pc' = "done"
       ELSE pc' = "prompt" /\ UNCHANGED <<menu, menuErr>>
    /\ UNCHANGED <<items, selected, numberBuf, keys, stdin, answer>>
    /\ UNCHANGED <<coreVars, configVars, pathVars, ensureVars, execVars>>

MaxInput == 3

InputChars == {"1", "5", "x", " ", "\r", "\n"}

InitPrompt ==
    /\ pc = "prompt"
    /\ IdleCore /\ IdleConfig /\ IdlePath /\ IdleEnsure /\ IdleExec
    /\ \E count \in 1..MaxItems : items = [i \in 1..count |-> <<ItemNames[i]>>]
    /\ selected = 0 /\ numberBuf = <<>> /\ menu = <<>> /\ menuErr = "" /\ keys = <<>>
    /\ \E data \in SeqsUpTo(InputChars, MaxInput), end \in {"EOF", "EIO"} :
        stdin = Stream(data, end)
    /\ answer = <<>>

NextPrompt == DoPromptLine \/ DoChoose

SpecPrompt == InitPrompt /\ [][NextPrompt]_vars

\* the loop runs on: a call that can be made is made
SpecPromptFair == SpecPrompt /\ WF_vars(DoPromptLine) /\ WF_vars(DoChoose)

----------------------------------------------------------------------------
(* Claims about pickOptionLinePrompt, checked under SpecPromptFair *)

\* C29: the line prompt eventually returns, whatever the input, an input that ends
\* before a valid number included.
C29_PromptReturns == <>(pc = "done")

\* the prompt returns when the input ends in an error other than EOF
PromptReturnsOnError == (stdin.end = "EIO") => <>(pc = "done")

----------------------------------------------------------------------------
(* package cli: handleExec. What git answers (GuessDefaultRemote, the output of     *)
(* "git remote get-url") and what loadConfig yields are inputs; cfg is <<>> when    *)
(* loadConfig fails                                                                *)

SSHCommandName == "GIT_SSH_COMMAND"

GitAnswer(out, err) == [out |-> out, err |-> err]

\* gitops.go lines 46-51
RemoteURL(repo, name) ==
    IF TrimSpace(name) = <<>> THEN GitAnswer(<<>>, "empty remote name") ELSE repo.url

\* part_004 lines 433-442: the target after the default remote is guessed
withGuessedRemote(t, repo) ==
    IF t.Kind = TargetNone /\ t.Command \in {CmdPush, CmdFetch, CmdPull} /\ repo.guess.err = ""
    THEN [t EXCEPT !.Kind = TargetRemote, !.RemoteName = repo.guess.out]
    ELSE t

\* lines 426-451: rawURL and the error of git.RemoteURL, t being the target after the guess
rawURLOf(t, repo) ==
    IF t.Kind = TargetRemote /\ t.RemoteName # <<>> THEN RemoteURL(repo, t.RemoteName)
    ELSE IF t.Kind = TargetURL THEN GitAnswer(t.URL, "")
    ELSE GitAnswer(<<>>, "")

\* line 459
httpsByText(raw) == Contains(raw, SchemeSep) /\ HasPrefix(ToLower(raw), <<"h", "t", "t", "p", "s", ":", "/", "/">>)

\* lines 471-473
envOf(res) ==
    IF res.SSHSelectionApplies THEN {[name |-> SSHCommandName, value |-> res.GITSSHCommand]}
    ELSE {}

\* a return of handleExec
Exits(code, t, raw, res, resErr, env, run) ==
    /\ exitCode' = code /\ target' = t /\ remoteURL' = raw
    /\ result' = res /\ resultErr' = resErr /\ extraEnv' = env /\ gitRun' = run

\* lines 479-518
runOrDry(t, raw, res, env) ==
    IF opts.DryRun THEN Exits(0, <<t>>, raw, res, <<>>, env, <<>>)
    ELSE \E code \in {0, 1} : Exits(code, <<t>>, raw, res, <<>>, env, <<[args |-> argv, env |-> env]>>)

\* lines 453-477
selectAndRun(t, raw) ==
    IF raw # <<>> /\ ~t.SkipSSHSelection
    THEN IF cfg = <<>> /\ ~httpsByText(raw) THEN Exits(1, <<t>>, raw, <<>>, <<>>, {}, <<>>)
         ELSE \E r \in {FromURL(cfg, raw, environ)} :
                IF r.err # <<>> THEN Exits(1, <<t>>, raw, <<>>, r.err, {}, <<>>)
                ELSE runOrDry(t, raw, r.res, envOf(r.res[1]))
    ELSE runOrDry(t, raw, <<>>, {})

\* lines 426-477, t being the target after the guess
resolveAndRun(t) ==
    \E u \in {rawURLOf(t, gitRepo)} :
        IF u.err # "" THEN Exits(1, <<t>>, <<>>, <<>>, <<>>, {}, <<>>)
        ELSE selectAndRun(t, u.out)

\* lines 409-519
DoExec ==
    /\ pc = "start"
    /\ IF Len(argv) = 0 THEN inferErr' = "" /\ Exits(2, <<>>, <<>>, <<>>, <<>>, {}, <<>>)
       ELSE \E inf \in {InferGitTarget(argv)} :
            /\ inferErr' = inf.err
            /\ IF inf.err # "" THEN Exits(2, <<inf.target>>, <<>>, <<>>, <<>>, {}, <<>>)
               ELSE resolveAndRun(withGuessedRemote(inf.target, gitRepo))
    /\ pc' = "executed"
    /\ UNCHANGED <<argv, positionals, cfg, environ, opts, gitRepo>>
    /\ UNCHANGED <<remoteVars, commandVars, configVars, pathVars, ensureVars, menuVars>>

----------------------------------------------------------------------------
(* Inputs of handleExec *)

Origin == <<"o", "r", "i", "g", "i", "n">>

SshURL == <<"g", "i", "t", "@", "h", ".", "c", ":", "o", "/", "r", ".", "g", "i", "t">>

HttpsURL == <<"h", "t", "t", "p", "s", ":", "/", "/", "h", ".", "c", "/", "o", "/", "r", ".", "g", "i", "t">>

ExecArgs ==
    { <<>>,
      <<CmdPush>>,
      <<CmdPush, Origin>>,
      <<CmdFetch, SshURL>>,
      <<CmdFetch, <<"g", "i", "t", "@", "y", ":", "o", "/", "r", ".", "g", "i", "t">>>>,
      <<CmdPull, HttpsURL>>,
      <<CmdClone>>,
      <<CmdClone, <<"H", "T", "T", "P", "S", ":", "/", "/", "h", ".", "c", "/", "o", "/", "r">>>>,
      <<CmdClone, <<" ">> \o HttpsURL>>,
      <<CmdClone, <<"h", "t", "t", "p", "s", ":", "/", "/">>>>,
      <<CmdClone, <<"h", "t", "t", "p", ":", "/", "/", "h", ".", "c", "/", "o", "/", "r">>>>,
      <<CmdRemote, SetUrl, Origin, SshURL>>,
      <<<<"s", "t", "a", "t", "u", "s">>>> }

GitRepos ==
    { [guess |-> g, url |-> u] :
        g \in {GitAnswer(<<>>, "guess"), GitAnswer(Origin, "")},
        u \in {GitAnswer(<<>>, "get-url"), GitAnswer(SshURL, ""), GitAnswer(SshURL \o Newline, ""),
               GitAnswer(HttpsURL \o Newline, "")} }

ExecConfigs ==
    {<<>>, <<Config(<<>>)>>}
    \cup {<<Config(<<r>>)>> : r \in {k \in KeyRulePool : k.ID \in {"host", "nokey", "rel"}}}

InitExec ==
    /\ pc = "start"
    /\ IdleRemote /\ IdleCommand /\ IdleConfig /\ IdlePath /\ IdleEnsure /\ IdleMenu
    /\ argv \in ExecArgs
    /\ target = <<>> /\ inferErr = "" /\ positionals = <<>>
    /\ cfg \in ExecConfigs
    /\ environ \in Environments
    /\ result = <<>> /\ resultErr = <<>>
    /\ opts \in {[DryRun |-> d] : d \in BOOLEAN}
    /\ gitRepo \in GitRepos
    /\ remoteURL = <<>> /\ extraEnv = {} /\ gitRun = <<>> /\ exitCode = 0

NextExec == DoExec

SpecExec == InitExec /\ [][NextExec]_vars

----------------------------------------------------------------------------
(* Claims about handleExec, checked under SpecExec *)

Executed == pc = "executed"

\* a remote URL was determined and credential selection is not skipped
SelectionDue == remoteURL # <<>> /\ target # <<>> /\ ~target[1].SkipSSHSelection

\* the resolution of the determined URL, from the inputs
Resolution == FromURL(cfg, remoteURL, environ)

\* resolution reports an ssh remote with a matched rule
SSHRuleMatched ==
    /\ Resolution.err = <<>>
    /\ Resolution.res[1].SSHSelectionApplies
    /\ Resolution.res[1].MatchedRule # <<>>

\* the override command for the matched rule's key
OverrideCommand ==
    BuildGITSSHCommand(ExpandPath(Resolution.res[1].MatchedRule[1].Key, environ).path)

RunsWithSSHCommand ==
    gitRun # <<>> /\ \E e \in gitRun[1].env : e.name = SSHCommandName

\* the determined URL is an https remote
HTTPSRemote ==
    /\ remoteURL # <<>>
    /\ Parse(remoteURL).err = "" /\ IsHTTPS(Parse(remoteURL).remote[1])

\* git is started with GIT_SSH_COMMAND exactly when selection is due and an ssh rule
\* matched, its value being the override command
C23_EnvIffMatched ==
    (Executed /\ Len(argv) > 0 /\ inferErr = "" /\ ~opts.DryRun) =>
        /\ RunsWithSSHCommand <=> (SelectionDue /\ SSHRuleMatched)
        /\ RunsWithSSHCommand =>
               gitRun[1].env = {[name |-> SSHCommandName, value |-> OverrideCommand]}

\* git is never started when selection is due and loading the config (for a URL that
\* is not https), parsing, matching or key expansion fails
C23_NoRunOnFailure ==
    (Executed /\ SelectionDue) =>
        /\ (cfg = <<>> /\ Parse(remoteURL).err = "" /\ ~IsHTTPS(Parse(remoteURL).remote[1]))
              => gitRun = <<>>
        /\ (cfg # <<>> /\ Resolution.err # <<>>) => gitRun = <<>>
        /\ Parse(remoteURL).err # "" => gitRun = <<>>

\* for an https remote git is started, without GIT_SSH_COMMAND
C23_HTTPSRuns ==
    (Executed /\ HTTPSRemote /\ ~opts.DryRun) => (gitRun # <<>> /\ gitRun[1].env = {})

\* C23: in a run that is not a dry run, git is started with GIT_SSH_COMMAND if and
\* only if a remote URL was determined, selection is not skipped and resolution
\* reported an ssh remote with a matched rule, the value being the override command
\* for the rule's key; for an https remote git is started without it; git is never
\* started when selection is due and config loading (URL not https), parsing, rule
\* matching or key expansion fails.
C23_ExecEnvironment == C23_EnvIffMatched /\ C23_NoRunOnFailure /\ C23_HTTPSRuns

====
